---- MODULE Spec2Model ----
(***************************************************************************)
(* Model of scripts/build_registry.py: the template registry pipeline      *)
(* (discover, extract, build, compile, index).                             *)
(*                                                                         *)
(* Strings that the code inspects character by character (template names)  *)
(* are sequences of symbols over a small alphabet; "LF" stands for the     *)
(* newline character.  Files are records; a directory is a record of the   *)
(* files the code reads or writes in it.                                   *)
(***************************************************************************)
EXTENDS Naturals, Sequences, FiniteSets, TLC

(* ------------------------------------------------------------------ *)
(* Bounds of the model                                                  *)
(* ------------------------------------------------------------------ *)

\* how many times cmd_index is run in a row on the same deploy directory
MaxIndexRuns == 2

\* the longest text of a SHA256SUMS file that parse_sha256sums is given
MaxTextLen == 4

\* the most assets of a release that extract_template_names is given
MaxAssets == 3

(* ------------------------------------------------------------------ *)
(* Strings and names                                                    *)
(* ------------------------------------------------------------------ *)

NmA == <<"a">>
NmB == <<"b">>
NmAB == <<"a", "-", "b">>
NmUpper == <<"A">>
NmDash == <<"-", "a">>
NmNewline == <<"a", "LF">>

\* every template name the model feeds to the pipeline
AllNames == {NmA, NmB, NmAB, NmUpper, NmDash, NmNewline}

\* [a-z0-9]
IsAlnum(c) == c \in {"a", "b"}

\* the identifier pattern itself: lowercase alphanumerics, internal hyphens
IsIdentifier(s) ==
    /\ Len(s) >= 1
    /\ IsAlnum(s[1])
    /\ IsAlnum(s[Len(s)])
    /\ \A i \in 1..Len(s) : IsAlnum(s[i]) \/ s[i] = "-"

\* VALID_TEMPLATE_NAME.match(name): ^[a-z0-9]([a-z0-9-]*[a-z0-9])?$ where
\* Python's $ matches at the end of the string and also just before a
\* newline that ends the string
ValidTemplateName(s) ==
    \/ IsIdentifier(s)
    \/ /\ Len(s) >= 2
       /\ s[Len(s)] = "LF"
       /\ IsIdentifier(SubSeq(s, 1, Len(s) - 1))

\* code point order of the symbols
CharRank(c) ==
    CASE c = "LF" -> 10
      [] c = " " -> 32
      [] c = "*" -> 42
      [] c = "-" -> 45
      [] c = "A" -> 65
      [] c = "a" -> 97
      [] c = "b" -> 98

\* Python's str <
RECURSIVE StrLess(_, _)
StrLess(s, t) ==
    IF t = <<>> THEN FALSE
    ELSE IF s = <<>> THEN TRUE
    ELSE IF CharRank(Head(s)) < CharRank(Head(t)) THEN TRUE
    ELSE IF CharRank(Head(s)) > CharRank(Head(t)) THEN FALSE
    ELSE StrLess(Tail(s), Tail(t))

\* insert e after every element whose name is not greater (a stable sort)
RECURSIVE InsertByName(_, _)
InsertByName(sorted, e) ==
    IF sorted = <<>> THEN <<e>>
    ELSE IF StrLess(e.name, Head(sorted).name) THEN <<e>> \o sorted
    ELSE <<Head(sorted)>> \o InsertByName(Tail(sorted), e)

\* sorted(templates, key=lambda t: t["name"])
RECURSIVE SortedByName(_)
SortedByName(s) ==
    IF s = <<>> THEN <<>>
    ELSE InsertByName(SortedByName(SubSeq(s, 1, Len(s) - 1)), s[Len(s)])

\* sorted(dir.iterdir()) for the directory names of a set
RECURSIVE SortedNames(_)
SortedNames(S) ==
    IF S = {} THEN <<>>
    ELSE LET m == CHOOSE x \in S : \A y \in S \ {x} : StrLess(x, y)
         IN <<m>> \o SortedNames(S \ {m})

SeqToSet(s) == {s[i] : i \in 1..Len(s)}

(* ------------------------------------------------------------------ *)
(* File contents                                                        *)
(* ------------------------------------------------------------------ *)

OFFICIAL_OWNER == "Presto-io"

NoPlatforms == [p \in {} |-> TRUE]

\* manifest.json: absent, not a JSON object, or an object whose "name" and
\* "version" keys may be missing (version "" when missing)
NoManifest == [state |-> "absent", hasName |-> FALSE, name |-> <<>>, version |-> ""]
BadManifest == [state |-> "malformed", hasName |-> FALSE, name |-> <<>>, version |-> ""]
ManifestOf(hasName, name, version) ==
    [state |-> "ok", hasName |-> hasName, name |-> name, version |-> version]

\* meta.json as _build_meta / _extract_verified_metadata write it
\* (published_at and html_url are copied along and read by nothing: left out)
NoMeta ==
    [state |-> "absent", name |-> <<>>, repo |-> "", owner |-> "", version |-> "",
     tag |-> "", platforms |-> NoPlatforms, verified |-> FALSE]
MetaOf(name, repo, owner, version, tag, platforms, verified) ==
    [state |-> "ok", name |-> name, repo |-> repo, owner |-> owner,
     version |-> version, tag |-> tag, platforms |-> platforms, verified |-> verified]

\* OUTPUT_DIR/<name>/: its files, and the byte size of those that hold the
\* output of a child process
NoOutDir ==
    [exists |-> FALSE, binary |-> FALSE, manifest |-> NoManifest, example |-> FALSE,
     typ |-> FALSE, readme |-> FALSE, meta |-> NoMeta,
     size |-> [manifest |-> 0, example |-> 0, typ |-> 0]]

\* OUTPUT_DIR/deploy/<name>/
NoDeployDir == [exists |-> FALSE, manifest |-> NoManifest, previews |-> 0]

(* ------------------------------------------------------------------ *)
(* State                                                                *)
(* ------------------------------------------------------------------ *)

VARIABLES
    pc,              \* the subcommand the run is at
    outDir,          \* OUTPUT_DIR/<name>/ for every name
    deploy,          \* OUTPUT_DIR/deploy/<name>/ for every name
    registry,        \* REGISTRY_JSON: the list under "templates"
    deployRegistry,  \* OUTPUT_DIR/deploy/registry.json, <<>> until written
    templatesDir,    \* the names under TEMPLATES_DIR
    verifiedNames,   \* the names listed in verified-templates.json
    idx,             \* cmd_index: its run count, outcome and locals
    discovered,      \* discovered.json: the candidates
    sums,            \* upstream: the SHA256SUMS text of each release, parsed
    curPlatform,     \* get_current_platform()
    ext,             \* cmd_extract: loop position, sha256_cache, outcomes
    cmp,             \* cmd_compile: loop position and outcomes
    io,              \* what the run did to the world, per candidate
    entries,         \* verified-templates.json
    bld,             \* cmd_build: loop position, the step of the template, locals
    volumes,         \* the docker volumes that exist
    buildDir,        \* BUILD_OUTPUT_DIR/<name>/ for every name
    releases,        \* the releases of REGISTRY_REPO, by tag
    up,              \* upstream: what the GitHub API answers, and FORCE_REBUILD
    dsc,             \* cmd_discover: its run count and outcome
    nm,              \* an asset list, the names extracted from it and their platforms
    sm               \* a SHA256SUMS text, what it parses to, and the text written from that

fsVars == <<outDir, deploy, registry, deployRegistry, templatesDir, verifiedNames>>
inputVars == <<discovered, sums, curPlatform, sm, nm, up, dsc>>
buildVars == <<entries, bld, volumes, buildDir, releases>>
restOfRun == <<pc, outDir, deploy, registry, deployRegistry, templatesDir, verifiedNames, idx,
               inputVars, ext, cmp, io>>
vars == <<pc, outDir, deploy, registry, deployRegistry, templatesDir, verifiedNames, idx,
          discovered, sums, curPlatform, ext, cmp, io,
          entries, bld, volumes, buildDir, releases, sm, nm, up, dsc>>

(* ------------------------------------------------------------------ *)
(* cmd_index                                                            *)
(* ------------------------------------------------------------------ *)

\* the trust classification of one deploy directory
TrustOf(meta, dirName, verified) ==
    IF meta.owner = OFFICIAL_OWNER THEN "official"
    ELSE IF meta.verified \/ dirName \in verified THEN "verified"
    ELSE "community"

PreviewImages(dirName, pages) == [i \in 1..pages |-> <<dirName, i>>]

\* the entry cmd_index appends for one deploy directory
FreshEntry(d, dep, out, verified) ==
    [name |-> IF dep[d].manifest.hasName THEN dep[d].manifest.name ELSE d,
     version |-> dep[d].manifest.version,
     repo |-> out[d].meta.repo,
     trust |-> TrustOf(out[d].meta, d, verified),
     platforms |-> out[d].meta.platforms,
     previewImages |-> PreviewImages(d, dep[d].previews)]

\* the deploy directories cmd_index visits, in its order
IndexedDirs(dep) ==
    SortedNames({d \in DOMAIN dep : dep[d].exists /\ dep[d].manifest.state # "absent"})

\* json.load of a manifest.json that is not a JSON object raises
IndexRaises(dep) ==
    \E d \in DOMAIN dep : dep[d].exists /\ dep[d].manifest.state = "malformed"

\* the list `templates` after the loop over the deploy directory
FreshTemplates(dep, out, verified) ==
    LET dirs == IndexedDirs(dep)
    IN [i \in 1..Len(dirs) |-> FreshEntry(dirs[i], dep, out, verified)]

EntryNames(s) == {s[i].name : i \in 1..Len(s)}

\* a merge that appends every loaded entry, updated or not
MergeExisting_KeepAll(templates, existing) == templates \o existing

\* a merge that forgets the registry it loaded
MergeExisting_Forget(templates, existing) == templates

\* the merge loop: append every existing entry whose name was not updated
MergeExisting(templates, existing) ==
    templates \o SelectSeq(existing, LAMBDA e : e.name \notin EntryNames(templates))

\* the "templates" list of the registry that cmd_index writes
BuildRegistry(templates, existing) == SortedByName(MergeExisting(templates, existing))

IdxIdle == [runs |-> 0, status |-> "idle", templates |-> <<>>, existing |-> <<>>]

\* cmd_index from its first line to its last
IndexBody ==
    IF IndexRaises(deploy)
    THEN /\ idx' = [runs |-> idx.runs + 1, status |-> "raised",
                    templates |-> <<>>, existing |-> <<>>]
         /\ UNCHANGED fsVars
    ELSE LET templates == FreshTemplates(deploy, outDir, verifiedNames)
             existing == registry
             written == BuildRegistry(templates, existing)
         IN /\ idx' = [runs |-> idx.runs + 1, status |-> "written",
                       templates |-> templates, existing |-> existing]
            /\ deployRegistry' = written
            /\ registry' = written
            /\ templatesDir' = templatesDir \cup {d \in DOMAIN deploy : deploy[d].exists}
            /\ UNCHANGED <<outDir, deploy, verifiedNames>>

\* cmd_index run on its own, again and again
CmdIndex ==
    /\ idx.runs < MaxIndexRuns
    /\ idx.status # "crashed"
    /\ IndexBody
    /\ UNCHANGED <<pc, inputVars, buildVars, ext, cmp, io>>

\* what a file opened with "w" holds when the process ends before json.dump
\* has finished: the file was truncated and the text of the first few
\* entries written
TornWrites(written) == {SubSeq(written, 1, k) : k \in 0..(Len(written) - 1)}

\* cmd_index ended by a crash (a kill, a full disk, an unwritable file) in
\* its writes: during the write of deploy/registry.json, between the two
\* writes, or during the write of REGISTRY_JSON
IndexCrash ==
    /\ idx.runs < MaxIndexRuns
    /\ idx.status # "crashed"
    /\ ~IndexRaises(deploy)
    /\ LET templates == FreshTemplates(deploy, outDir, verifiedNames)
           existing == registry
           written == BuildRegistry(templates, existing)
       IN /\ idx' = [runs |-> idx.runs + 1, status |-> "crashed",
                     templates |-> templates, existing |-> existing]
          /\ \/ /\ deployRegistry' \in TornWrites(written)
                /\ registry' = registry
             \/ /\ deployRegistry' = written
                /\ registry' = registry
             \/ /\ deployRegistry' = written
                /\ registry' \in TornWrites(written)
    /\ UNCHANGED <<outDir, deploy, templatesDir, verifiedNames, pc, inputVars, buildVars,
                   ext, cmp, io>>

\* cmd_index as the last subcommand of a run
RunIndex ==
    /\ pc = "index"
    /\ IndexBody
    /\ pc' = "done"
    /\ UNCHANGED <<inputVars, buildVars, ext, cmp, io>>

(* ------------------------------------------------------------------ *)
(* Release assets, checksums, platforms                                 *)
(* ------------------------------------------------------------------ *)

MAX_MANIFEST_SIZE == 1048576
MAX_EXAMPLE_SIZE == 1048576
MAX_TYPST_SIZE == 10485760

OFFICIAL_REPO == "Presto-io/presto-official-templates"
GONGWEN == <<"gongwen">>

ALL_PLATFORMS ==
    << <<"darwin", "arm64">>, <<"darwin", "amd64">>,
       <<"linux", "arm64">>, <<"linux", "amd64">>,
       <<"windows", "arm64">>, <<"windows", "amd64">> >>

ExeSuffix(os) == IF os = "windows" THEN <<".exe">> ELSE <<>>

\* f"presto-template-{template_name}-{target_os}-{target_arch}{suffix}"
BinaryFileName(name, os, arch) ==
    <<"presto", "-", "template", "-">> \o name \o <<"-", os, "-", arch>> \o ExeSuffix(os)

SumsFileName == <<"SHA256SUMS">>

\* a release asset: its file name and its browser_download_url
Asset(repo, fileName) == [name |-> fileName, url |-> <<repo>> \o fileName]

\* the bytes the upstream provider serves at a url
BytesAt(url) == url

\* hashlib.sha256(bytes).hexdigest(): injective on the bytes of the model
Sha256(bytes) == <<"sha256">> \o bytes

\* a digest that is the digest of no served file (one character altered)
AlteredDigest == <<"sha256", "altered">>

NoSums == [k \in {} |-> <<>>]
EmptyMap == [f \in {} |-> <<>>]

\* dict.get(key, "")
MapGet(map, key) == IF key \in DOMAIN map THEN map[key] ELSE <<>>

KNOWN_OS == {"darwin", "linux", "windows"}
KNOWN_ARCH == {"amd64", "arm64"}

\* str.replace(".exe", "")
RECURSIVE WithoutExe(_)
WithoutExe(s) ==
    IF s = <<>> THEN <<>>
    ELSE IF Head(s) = ".exe" THEN WithoutExe(Tail(s))
    ELSE <<Head(s)>> \o WithoutExe(Tail(s))

\* str.startswith("presto-template-")
StartsWithPrefix(s) == Len(s) >= 4 /\ SubSeq(s, 1, 4) = <<"presto", "-", "template", "-">>

\* str.split("-")
RECURSIVE SplitDash(_)
SplitDash(s) ==
    IF \A i \in 1..Len(s) : s[i] # "-" THEN <<s>>
    ELSE LET k == CHOOSE i \in 1..Len(s) : s[i] = "-" /\ \A j \in 1..(i - 1) : s[j] # "-"
         IN <<SubSeq(s, 1, k - 1)>> \o SplitDash(SubSeq(s, k + 1, Len(s)))

\* "-".join(parts)
RECURSIVE JoinDash(_)
JoinDash(parts) ==
    IF parts = <<>> THEN <<>>
    ELSE IF Len(parts) = 1 THEN parts[1]
    ELSE parts[1] \o <<"-">> \o JoinDash(Tail(parts))

\* the name that one asset adds to the set of extract_template_names
AssetTemplateNames(fileName) ==
    LET aname == WithoutExe(fileName)
        parts == SplitDash(aname)
        n == Len(parts)
    IN IF ~StartsWithPrefix(aname) THEN {}
       ELSE IF n >= 5 /\ parts[n - 1] \in {<<os>> : os \in KNOWN_OS}
                      /\ parts[n] \in {<<arch>> : arch \in KNOWN_ARCH}
            THEN LET name == JoinDash(SubSeq(parts, 3, n - 2))
                 IN IF name # <<>> /\ ValidTemplateName(name) THEN {name} ELSE {}
            ELSE {}

\* extract_template_names(assets)
ExtractTemplateNames(assets) ==
    SortedNames(UNION {AssetTemplateNames(assets[i].name) : i \in 1..Len(assets)})

\* the characters of a SHA256SUMS text: two that digests and file names
\* are written with, the binary mode marker, and white space
TextChars == {"a", "b", "*", " ", "LF"}

IsSpace(c) == c \in {" ", "LF"}

\* str.lstrip()
RECURSIVE LStrip(_)
LStrip(s) == IF s # <<>> /\ IsSpace(Head(s)) THEN LStrip(Tail(s)) ELSE s

\* str.rstrip()
RECURSIVE RStrip(_)
RStrip(s) ==
    IF s # <<>> /\ IsSpace(s[Len(s)]) THEN RStrip(SubSeq(s, 1, Len(s) - 1)) ELSE s

\* str.strip()
Strip(s) == RStrip(LStrip(s))

\* str.split("\n")
RECURSIVE SplitLines(_)
SplitLines(s) ==
    IF \A i \in 1..Len(s) : s[i] # "LF" THEN <<s>>
    ELSE LET k == CHOOSE i \in 1..Len(s) : s[i] = "LF" /\ \A j \in 1..(i - 1) : s[j] # "LF"
         IN <<SubSeq(s, 1, k - 1)>> \o SplitLines(SubSeq(s, k + 1, Len(s)))

\* str.split()
RECURSIVE SplitWords(_)
SplitWords(s) ==
    LET t == LStrip(s)
    IN IF t = <<>> THEN <<>>
       ELSE LET k == CHOOSE i \in 1..(Len(t) + 1) :
                        /\ i = Len(t) + 1 \/ IsSpace(t[i])
                        /\ \A j \in 1..(i - 1) : ~IsSpace(t[j])
            IN <<SubSeq(t, 1, k - 1)>> \o SplitWords(SubSeq(t, k, Len(t)))

\* str.lstrip("*")
RECURSIVE LStripStar(_)
LStripStar(w) == IF w # <<>> /\ Head(w) = "*" THEN LStripStar(Tail(w)) ELSE w

\* the loop of parse_sha256sums over the lines, result its dict so far
RECURSIVE ParseLines(_, _)
ParseLines(lines, result) ==
    IF lines = <<>> THEN result
    ELSE LET parts == SplitWords(Strip(Head(lines)))
         IN ParseLines(Tail(lines),
                       IF Len(parts) >= 2
                       THEN (LStripStar(parts[2]) :> parts[1]) @@ result
                       ELSE result)

ParseSha256sums(content) == ParseLines(SplitLines(Strip(content)), EmptyMap)

\* the text that Step 4 of a build writes for a dict of digests:
\* f"{hash_val}  {asset_key}\n" for the sorted items
RECURSIVE WriteLines(_, _)
WriteLines(files, map) ==
    IF files = <<>> THEN <<>>
    ELSE map[Head(files)] \o <<" ", " ">> \o Head(files) \o <<"LF">>
            \o WriteLines(Tail(files), map)

WriteSha256sums(map) == WriteLines(SortedNames(DOMAIN map), map)

SmIdle == [pc |-> "idle", content |-> <<>>, first |-> EmptyMap, text |-> <<>>,
           again |-> EmptyMap]

\* parse_sha256sums on the downloaded text
ParseText ==
    /\ sm.pc = "text"
    /\ sm' = [sm EXCEPT !.pc = "parsed", !.first = ParseSha256sums(sm.content)]
    /\ UNCHANGED <<pc, fsVars, idx, discovered, sums, curPlatform, nm, up, dsc, ext, cmp, io, buildVars>>

\* the dict written as a SHA256SUMS file
WriteText ==
    /\ sm.pc = "parsed"
    /\ sm' = [sm EXCEPT !.pc = "written", !.text = WriteSha256sums(sm.first)]
    /\ UNCHANGED <<pc, fsVars, idx, discovered, sums, curPlatform, nm, up, dsc, ext, cmp, io, buildVars>>

\* parse_sha256sums on the written file
ParseAgain ==
    /\ sm.pc = "written"
    /\ sm' = [sm EXCEPT !.pc = "done", !.again = ParseSha256sums(sm.text)]
    /\ UNCHANGED <<pc, fsVars, idx, discovered, sums, curPlatform, nm, up, dsc, ext, cmp, io, buildVars>>

\* the index of the first asset of that platform, 0 for None
FindBinaryAsset(assets, name, os, arch) ==
    LET hits == {i \in 1..Len(assets) : assets[i].name = BinaryFileName(name, os, arch)}
    IN IF hits = {} THEN 0 ELSE CHOOSE i \in hits : \A j \in hits : i <= j

\* verify_sha256: None, False, True as "unknown", "mismatch", "match"
VerifySha256(bytes, expected) ==
    IF expected = <<>> THEN "unknown"
    ELSE IF Sha256(bytes) # expected THEN "mismatch"
    ELSE "match"

\* collect_platforms: url and recorded digest of every platform with an asset
CollectPlatforms(assets, name, shaMap) ==
    LET found == {p \in SeqToSet(ALL_PLATFORMS) :
                     FindBinaryAsset(assets, name, p[1], p[2]) # 0}
    IN [p \in found |->
           [url |-> assets[FindBinaryAsset(assets, name, p[1], p[2])].url,
            sha256 |-> MapGet(shaMap, BinaryFileName(name, p[1], p[2]))]]

\* _build_meta: no "verified" key, which cmd_index reads as False
BuildMeta(tmpl, platforms) ==
    MetaOf(tmpl.name, tmpl.repo, tmpl.owner, tmpl.version, tmpl.tag, platforms, FALSE)

NmIdle == [pc |-> "idle", assets |-> <<>>, names |-> <<>>, platforms |-> <<>>, found |-> {}]

\* extract_template_names on the assets of a release
ExtractNames ==
    /\ nm.pc = "assets"
    /\ nm' = [nm EXCEPT !.pc = "names", !.names = ExtractTemplateNames(nm.assets)]
    /\ UNCHANGED <<pc, fsVars, idx, discovered, sums, curPlatform, sm, up, dsc, ext, cmp, io, buildVars>>

\* collect_platforms for every name extracted, and find_binary_asset for
\* every name and platform
LookupPlatforms ==
    /\ nm.pc = "names"
    /\ nm' = [nm EXCEPT
                 !.pc = "done",
                 !.platforms = [i \in 1..Len(nm.names) |->
                                   CollectPlatforms(nm.assets, nm.names[i], EmptyMap)],
                 !.found = {<<nm.names[i], p[1], p[2]>> :
                               <<i, p>> \in {<<i, p>> \in (1..Len(nm.names)) \X SeqToSet(ALL_PLATFORMS) :
                                   FindBinaryAsset(nm.assets, nm.names[i], p[1], p[2]) # 0}}]
    /\ UNCHANGED <<pc, fsVars, idx, discovered, sums, curPlatform, sm, up, dsc, ext, cmp, io, buildVars>>

(* ------------------------------------------------------------------ *)
(* cmd_discover                                                         *)
(* ------------------------------------------------------------------ *)

\* a response of the API to releases/latest: the release, or another status
NoLatest == [status |-> 404, tag |-> "", assets |-> <<>>]
Latest(tag, assets) == [status |-> 200, tag |-> tag, assets |-> assets]

\* a repository of the topic search
Repo(fullName, owner, latest) == [full_name |-> fullName, owner |-> owner, latest |-> latest]

NoUpstream == [force |-> FALSE, official |-> NoLatest, search |-> [status |-> 403, items |-> <<>>]]

DscIdle == [runs |-> 0, status |-> "idle", lists |-> <<>>]

\* tag.lstrip("v") for the tags of the model
LStripV(tag) ==
    CASE tag = "v2.0" -> "2.0"
      [] tag = "v2.1" -> "2.1"
      [] tag = "2.0" -> "2.0"
      [] tag = "" -> ""

\* existing_versions: the version of the last entry of each name
ExistingVersions(reg) ==
    [n \in {reg[i].name : i \in 1..Len(reg)} |->
        reg[CHOOSE i \in 1..Len(reg) :
               reg[i].name = n /\ \A j \in (i + 1)..Len(reg) : reg[j].name # n].version]

\* `if not force and existing_versions.get(name) == version: continue`,
\* taken when force is set
Skipped_IgnoreForce(force, existing, name, version) ==
    name \in DOMAIN existing /\ existing[name] = version

\* `if not force and existing_versions.get(name) == version: continue`
Skipped(force, existing, name, version) ==
    ~force /\ name \in DOMAIN existing /\ existing[name] = version

\* the loop of process_release over the names of the release
RECURSIVE AppendCandidates(_, _, _, _, _, _, _)
AppendCandidates(list, names, repo, owner, release, existing, force) ==
    IF names = <<>> THEN list
    ELSE LET name == Head(names)
             version == LStripV(release.tag)
             cand == [name |-> name, repo |-> repo, owner |-> owner,
                      version |-> version, tag |-> release.tag, assets |-> release.assets]
         IN AppendCandidates(IF Skipped(force, existing, name, version) THEN list
                                                                        ELSE Append(list, cand),
                             Tail(names), repo, owner, release, existing, force)

\* process_release
ProcessRelease(list, repo, owner, release, existing, force) ==
    AppendCandidates(list, ExtractTemplateNames(release.assets), repo, owner, release,
                     existing, force)

\* the loop over the repositories of the topic search
RECURSIVE ProcessRepos(_, _, _, _)
ProcessRepos(list, repos, existing, force) ==
    IF repos = <<>> THEN list
    ELSE LET repo == Head(repos)
         IN ProcessRepos(IF repo.full_name = OFFICIAL_REPO \/ repo.latest.status # 200
                         THEN list
                         ELSE ProcessRelease(list, repo.full_name, repo.owner, repo.latest,
                                             existing, force),
                         Tail(repos), existing, force)

\* the list that cmd_discover writes to discovered.json
Discover(reg, upstream) ==
    LET existing == ExistingVersions(reg)
        official == IF upstream.official.status = 200
                    THEN ProcessRelease(<<>>, OFFICIAL_REPO, OFFICIAL_OWNER, upstream.official,
                                        existing, upstream.force)
                    ELSE <<>>
    IN IF upstream.search.status = 200
       THEN ProcessRepos(official, upstream.search.items, existing, upstream.force)
       ELSE official

\* cmd_discover from its first line to its last: one of its requests (no
\* try around requests.get and fetch_readme) can raise, and then
\* discovered.json is not written
DiscoverBody ==
    \E how \in {"ok", "raise"} :
        /\ dsc' = [runs |-> dsc.runs + 1,
                   status |-> IF how = "ok" THEN "written" ELSE "raised",
                   lists |-> IF how = "ok" THEN Append(dsc.lists, Discover(registry, up))
                                          ELSE dsc.lists]
        /\ discovered' = IF how = "ok" THEN Discover(registry, up) ELSE discovered

\* cmd_discover at the start of a run; extract is the next subcommand
CmdDiscover ==
    /\ pc = "discover"
    /\ DiscoverBody
    /\ pc' = IF dsc'.status = "written" THEN "extract" ELSE "failed"
    /\ UNCHANGED <<fsVars, idx, sums, curPlatform, sm, nm, up, ext, cmp, io, buildVars>>

\* cmd_discover of the run that follows a finished run, with the registry
\* that run wrote and the same upstream
DiscoverAgain ==
    /\ pc = "done"
    /\ dsc.runs = 1
    /\ DiscoverBody
    /\ pc' = "next_run"
    /\ UNCHANGED <<fsVars, idx, sums, curPlatform, sm, nm, up, ext, cmp, io, buildVars>>

(* ------------------------------------------------------------------ *)
(* The sandbox and the network                                          *)
(* ------------------------------------------------------------------ *)

\* what safe_run can return for a binary whose stdout, when it exits 0, is
\* one of `outs` and at or just over the bound `max`
SafeRunResults(outs, max) ==
    {[kind |-> "none", why |-> w, code |-> 0, size |-> 0, out |-> NoManifest] :
        w \in {"timeout", "launch_error"}}
    \cup {[kind |-> "exit", why |-> "nonzero", code |-> 1, size |-> 0, out |-> NoManifest]}
    \cup {[kind |-> "exit", why |-> "", code |-> 0, size |-> z, out |-> o] :
             <<z, o>> \in {max, max + 1} \X outs}

\* `result and result.returncode == 0`
RunSucceeded(r) == r.kind = "exit" /\ r.code = 0

\* how a run failed: no result (None) after a timeout or after a launch
\* error, or a non-zero exit
FailedHow(r) == IF r.kind = "none" THEN r.why ELSE "nonzero"

\* what an untrusted manifest.json can hold
ManifestContents(name) ==
    {BadManifest, ManifestOf(TRUE, name, "2.0"), ManifestOf(FALSE, <<>>, "2.0")}

Ev(op, what) == [op |-> op, what |-> what]

\* the digest check of a downloaded binary: the bytes, the digest looked up
\* for them and what verify_sha256 said
NoCheck == [verification |-> "none", expected |-> <<>>, bytes |-> <<>>]

\* how one candidate's extraction ended
Outcome(result, why, check, raised, dir, events) ==
    [result |-> result, why |-> why, check |-> check, raised |-> raised,
     dir |-> dir, events |-> events]

(* ------------------------------------------------------------------ *)
(* _extract_official_template                                           *)
(* ------------------------------------------------------------------ *)

\* from "# README" to the end
OfficialFinish(tmpl, dir, platforms, v, events) ==
    {Outcome("ok", "", v, FALSE,
             [dir EXCEPT !.readme = TRUE,
                         !.meta = BuildMeta(tmpl, platforms),
                         !.binary = (tmpl.name = GONGWEN)],
             events \cup {Ev("write", "README.md"), Ev("write", "meta.json")}
                    \cup (IF tmpl.name = GONGWEN THEN {} ELSE {Ev("unlink", "binary")}))}

\* a caller that reports the failed run and goes on without returning
OfficialTypst_NoReturn(tmpl, dir, platforms, v, events) ==
    UNION {IF ~RunSucceeded(r)
           THEN {[o EXCEPT !.result = "typst_failed", !.why = FailedHow(r)] :
                    o \in OfficialFinish(tmpl, dir, platforms, v,
                                         events \cup {Ev("exec", "pipe")})}
           ELSE IF r.size > MAX_TYPST_SIZE
           THEN {Outcome("typst_oversize", "", v, FALSE, dir, events \cup {Ev("exec", "pipe")})}
           ELSE OfficialFinish(tmpl, [dir EXCEPT !.typ = TRUE], platforms, v,
                               events \cup {Ev("exec", "pipe"), Ev("write", "output.typ")})
           : r \in SafeRunResults({NoManifest}, MAX_TYPST_SIZE)}

\* the pipe: example.md into the binary, output.typ out
OfficialTypst(tmpl, dir, platforms, v, events) ==
    UNION {IF ~RunSucceeded(r)
           THEN {Outcome("typst_failed", FailedHow(r), v, FALSE, dir, events \cup {Ev("exec", "pipe")})}
           ELSE IF r.size > MAX_TYPST_SIZE
           THEN {Outcome("typst_oversize", "", v, FALSE, dir, events \cup {Ev("exec", "pipe")})}
           ELSE OfficialFinish(tmpl, [dir EXCEPT !.typ = TRUE], platforms, v,
                               events \cup {Ev("exec", "pipe"), Ev("write", "output.typ")})
           : r \in SafeRunResults({NoManifest}, MAX_TYPST_SIZE)}

\* the run with --example
OfficialExample(tmpl, dir, platforms, v, events) ==
    UNION {IF ~RunSucceeded(r)
           THEN {Outcome("example_failed", FailedHow(r), v, FALSE, dir,
                         events \cup {Ev("exec", "--example")})}
           ELSE IF r.size > MAX_EXAMPLE_SIZE
           THEN {Outcome("example_oversize", "", v, FALSE, dir,
                         events \cup {Ev("exec", "--example")})}
           ELSE OfficialTypst(tmpl, [dir EXCEPT !.example = TRUE, !.size.example = r.size],
                              platforms, v,
                              events \cup {Ev("exec", "--example"), Ev("write", "example.md")})
           : r \in SafeRunResults({NoManifest}, MAX_EXAMPLE_SIZE)}

\* the run with --manifest
OfficialManifest(tmpl, dir, platforms, v, events) ==
    UNION {IF ~RunSucceeded(r)
           THEN {Outcome("manifest_failed", FailedHow(r), v, FALSE, dir,
                         events \cup {Ev("exec", "--manifest")})}
           ELSE IF r.size > MAX_MANIFEST_SIZE
           THEN {Outcome("manifest_oversize", "", v, FALSE, dir,
                         events \cup {Ev("exec", "--manifest")})}
           ELSE OfficialExample(tmpl, [dir EXCEPT !.manifest = r.out, !.size.manifest = r.size],
                                platforms, v,
                                events \cup {Ev("exec", "--manifest"),
                                             Ev("write", "manifest.json")})
           : r \in SafeRunResults(ManifestContents(tmpl.name), MAX_MANIFEST_SIZE)}

\* a gate that lets a mismatching binary through
DigestGate_Open(tmpl, dir, platforms, v, events) ==
    OfficialManifest(tmpl, dir, platforms, v, events)

\* the branch on the verification: a mismatch deletes the binary and returns
DigestGate(tmpl, dir, platforms, v, events) ==
    IF v.verification = "mismatch"
    THEN {Outcome("digest_mismatch", "", v, FALSE, [dir EXCEPT !.binary = FALSE],
                  events \cup {Ev("unlink", "binary")})}
    ELSE OfficialManifest(tmpl, dir, platforms, v, events)

\* the outcomes of _extract_official_template for one candidate
ExtractOfficial(tmpl, dir, platforms, shaMap, cur) ==
    LET a == FindBinaryAsset(tmpl.assets, tmpl.name, cur[1], cur[2])
    IN IF a = 0
       THEN {Outcome("no_binary", "", NoCheck, FALSE,
                     [dir EXCEPT !.meta = BuildMeta(tmpl, platforms)],
                     {Ev("write", "meta.json")})}
       ELSE LET asset == tmpl.assets[a]
                expected == MapGet(shaMap, asset.name)
                v == [verification |-> VerifySha256(BytesAt(asset.url), expected),
                      expected |-> expected, bytes |-> BytesAt(asset.url)]
            IN {Outcome("raised", "download", NoCheck, TRUE, dir, {Ev("fetch", "binary")}),
                Outcome("download_failed", "http_error", NoCheck, FALSE, dir,
                        {Ev("fetch", "binary")})}
               \cup DigestGate(tmpl, [dir EXCEPT !.binary = TRUE], platforms, v,
                               {Ev("fetch", "binary"), Ev("write", "binary")})

(* ------------------------------------------------------------------ *)
(* _extract_community_template                                          *)
(* ------------------------------------------------------------------ *)

\* what the contents API answers over the four manifest paths
CommunityResponses(name) ==
    {[kind |-> k, size |-> 0, out |-> NoManifest] : k \in {"raise", "not_found"}}
    \cup {[kind |-> "found", size |-> z, out |-> o] :
             <<z, o>> \in {MAX_MANIFEST_SIZE, MAX_MANIFEST_SIZE + 1} \X ManifestContents(name)}

ExtractCommunity(tmpl, dir, platforms) ==
    {IF resp.kind = "raise"
     THEN Outcome("raised", "manifest", NoCheck, TRUE, dir, {Ev("fetch", "manifest.json")})
     ELSE LET keep == resp.kind = "found" /\ resp.size <= MAX_MANIFEST_SIZE
          IN Outcome("ok", "", NoCheck, FALSE,
                     [dir EXCEPT !.manifest = IF keep THEN resp.out ELSE @,
                                 !.readme = TRUE,
                                 !.meta = BuildMeta(tmpl, platforms)],
                     {Ev("fetch", "manifest.json"), Ev("write", "README.md"),
                      Ev("write", "meta.json")}
                     \cup (IF keep THEN {Ev("write", "manifest.json")} ELSE {}))
     : resp \in CommunityResponses(tmpl.name)}

(* ------------------------------------------------------------------ *)
(* cmd_extract                                                          *)
(* ------------------------------------------------------------------ *)

ExtIdle == [next |-> 1, status |-> "idle", cache |-> NoSums, results |-> <<>>]

CacheKey(tmpl) == <<tmpl.repo, tmpl.tag>>

HasSumsAsset(assets) == \E i \in 1..Len(assets) : assets[i].name = SumsFileName

\* how the lookup of the release's SHA256SUMS can go
SumsResponses(tmpl, cache) ==
    IF CacheKey(tmpl) \in DOMAIN cache THEN {"cached"}
    ELSE IF ~HasSumsAsset(tmpl.assets) THEN {"no_asset"}
    ELSE {"ok", "http_error", "raise"}

\* download_sha256sums, or the cached map of the release
Sha256Map(tmpl, cache, resp) ==
    IF resp = "cached" THEN cache[CacheKey(tmpl)]
    ELSE IF resp = "ok" THEN sums[CacheKey(tmpl)]
    ELSE EmptyMap

\* `if not VALID_TEMPLATE_NAME.match(name): continue`
NameAccepted(name) == ValidTemplateName(name)

Result(cand, o) == [cand |-> cand, result |-> o.result, why |-> o.why, check |-> o.check]

Tagged(cand, events) == {[cand |-> cand, op |-> e.op, what |-> e.what] : e \in events}

\* one iteration of the loop over discovered.json
ExtractOne ==
    /\ pc = "extract"
    /\ ext.next <= Len(discovered)
    /\ LET i == ext.next
           tmpl == discovered[i]
           name == tmpl.name
       IN IF ~NameAccepted(name)
          THEN /\ ext' = [ext EXCEPT !.next = i + 1,
                                     !.results = Append(@, [cand |-> i, result |-> "invalid_name",
                                                            why |-> "", check |-> NoCheck])]
               /\ UNCHANGED <<pc, outDir, io>>
          ELSE \E resp \in SumsResponses(tmpl, ext.cache) :
                  LET dir == [outDir[name] EXCEPT !.exists = TRUE]
                      mk == {Ev("mkdir", "out_dir")}
                            \cup (IF resp \in {"ok", "http_error", "raise"}
                                  THEN {Ev("fetch", "SHA256SUMS")} ELSE {})
                      shaMap == Sha256Map(tmpl, ext.cache, resp)
                      platforms == CollectPlatforms(tmpl.assets, name, shaMap)
                      outcomes ==
                          IF resp = "raise"
                          THEN {Outcome("raised", "SHA256SUMS", NoCheck, TRUE, dir, {})}
                          ELSE IF tmpl.owner = OFFICIAL_OWNER
                          THEN ExtractOfficial(tmpl, dir, platforms, shaMap, curPlatform)
                          ELSE ExtractCommunity(tmpl, dir, platforms)
                  IN \E o \in outcomes :
                        /\ outDir' = [outDir EXCEPT ![name] = o.dir]
                        /\ io' = io \cup Tagged(i, mk \cup o.events)
                        /\ IF o.raised
                           THEN /\ ext' = [ext EXCEPT !.status = "raised",
                                                      !.results = Append(@, Result(i, o))]
                                /\ pc' = "compile"
                           ELSE /\ ext' = [ext EXCEPT
                                             !.next = i + 1,
                                             !.cache = (CacheKey(tmpl) :> shaMap) @@ @,
                                             !.results = Append(@, Result(i, o))]
                                /\ pc' = pc
    /\ UNCHANGED <<deploy, registry, deployRegistry, templatesDir, verifiedNames, idx,
                   inputVars, buildVars, cmp>>

\* the end of cmd_extract: the hero frames and the removal of the kept binary
ExtractFinish ==
    /\ pc = "extract"
    /\ ext.next > Len(discovered)
    /\ ext' = [ext EXCEPT !.status = "finished"]
    /\ outDir' = [d \in DOMAIN outDir |->
                     IF d = GONGWEN THEN [outDir[d] EXCEPT !.binary = FALSE] ELSE outDir[d]]
    /\ pc' = "compile"
    /\ UNCHANGED <<deploy, registry, deployRegistry, templatesDir, verifiedNames, idx,
                   inputVars, buildVars, cmp, io>>

(* ------------------------------------------------------------------ *)
(* cmd_compile                                                          *)
(* ------------------------------------------------------------------ *)

CmpIdle == [next |-> 1, results |-> <<>>]

\* sorted(OUTPUT_DIR.iterdir()), the directories of templates
CompileDirs(out) == SortedNames({d \in DOMAIN out : out[d].exists})

\* the copy of manifest.json into the deploy directory, when there is one
CopyManifest(dep, out) ==
    IF out.manifest.state # "absent" THEN [dep EXCEPT !.manifest = out.manifest] ELSE dep

\* one iteration of the loop over the output directory
CompileOne ==
    /\ pc = "compile"
    /\ cmp.next <= Len(CompileDirs(outDir))
    /\ LET d == CompileDirs(outDir)[cmp.next]
           target == [deploy[d] EXCEPT !.exists = TRUE]
       IN IF ~outDir[d].typ
          THEN /\ cmp' = [cmp EXCEPT !.next = @ + 1,
                                     !.results = Append(@, [dir |-> d, result |-> "no_typ"])]
               /\ UNCHANGED deploy
          ELSE \E r \in {"ok", "nonzero", "timeout"} :
                  /\ cmp' = [cmp EXCEPT !.next = @ + 1,
                                        !.results = Append(@, [dir |-> d, result |-> r])]
                  /\ deploy' =
                        [deploy EXCEPT ![d] =
                            IF r = "timeout" THEN target
                            ELSE IF r = "nonzero" THEN CopyManifest(target, outDir[d])
                            ELSE CopyManifest([target EXCEPT !.previews = 1], outDir[d])]
    /\ UNCHANGED <<pc, outDir, registry, deployRegistry, templatesDir, verifiedNames, idx,
                   inputVars, buildVars, ext, io>>

CompileFinish ==
    /\ pc = "compile"
    /\ cmp.next > Len(CompileDirs(outDir))
    /\ pc' = "index"
    /\ UNCHANGED <<outDir, deploy, registry, deployRegistry, templatesDir, verifiedNames, idx,
                   inputVars, buildVars, ext, cmp, io>>

(* ------------------------------------------------------------------ *)
(* cmd_build and _build_verified_template                               *)
(* ------------------------------------------------------------------ *)

MAX_ARTIFACT_SIZE == 52428800
REGISTRY_REPO == "Presto-io/template-registry"

BUILD_PLATFORMS ==
    << <<"darwin", "arm64">>, <<"darwin", "amd64">>,
       <<"linux", "arm64">>, <<"linux", "amd64">>,
       <<"windows", "arm64">>, <<"windows", "amd64">> >>

\* vol_src, vol_mod, vol_out of a template
VolumesOf(name) == {<<"verified-src", name>>, <<"verified-mod", name>>, <<"verified-out", name>>}

\* f"{name}-v{version}"
ReleaseTag(name, version) == <<name, "-v", version>>

\* BUILD_OUTPUT_DIR/<name>/: the clone, the artifact of each platform
\* ("absent", "stale" from an earlier run, "fresh" from this one), SHA256SUMS
NoBuildDir ==
    [exists |-> FALSE, source |-> FALSE,
     art |-> [p \in 1..Len(BUILD_PLATFORMS) |-> "absent"], sums |-> EmptyMap]

\* compute_sha256 of the artifact of a platform in the build directory
ArtifactSha(name, p, kind) == <<"sha256", name, p, kind>>

\* a release: who created it, the names of its assets and their digests
NoRelease == [exists |-> FALSE, origin |-> "", assets |-> {}, shas |-> EmptyMap]
NoReleases == [t \in {} |-> NoRelease]

BldIdle == [next |-> 1, step |-> "next", plat |-> 1, artifacts |-> {}, shas |-> EmptyMap,
            log |-> <<>>]

Entry == entries[bld.next]

VolSrc(name) == <<"verified-src", name>>
VolMod(name) == <<"verified-mod", name>>
VolOut(name) == <<"verified-out", name>>

\* a step that runs no container
NoBox == [ran |-> FALSE, networkNone |-> FALSE, readOnlyRoot |-> FALSE, mounts |-> {}]

\* a docker_run that never passes --network=none
DockerRun_Networked(mounts, network, read_only) ==
    [ran |-> TRUE, networkNone |-> FALSE, readOnlyRoot |-> read_only, mounts |-> mounts]

\* the command line docker_run builds: --network=none unless network,
\* --read-only (with a tmpfs /tmp) when read_only, one -v per mount
DockerRun(mounts, network, read_only) ==
    [ran |-> TRUE, networkNone |-> ~network, readOnlyRoot |-> read_only, mounts |-> mounts]

\* the alpine containers that copy into and out of the volumes, started
\* with subprocess.run and no flag beyond their mounts
CopyRun(mounts) ==
    [ran |-> TRUE, networkNone |-> FALSE, readOnlyRoot |-> FALSE, mounts |-> mounts]

\* the log of the steps taken for the template at hand, with the container
\* each step ran
LoggedRun(step, plat, ok, box) ==
    Append(bld.log, [step |-> step, plat |-> plat, ok |-> ok, box |-> box])

Logged(step, plat, ok) == LoggedRun(step, plat, ok, NoBox)

\* `return` from, or an exception out of, _build_verified_template: cmd_build
\* goes on to the next entry
Returned(log) == [bld EXCEPT !.step = "next", !.next = @ + 1, !.log = log]

\* _cleanup_volumes(volumes)
CleanupVolumes(vols, name) == vols \ VolumesOf(name)

\* how subprocess.run ends when the other side never answers: TimeoutExpired
\* after `timeout` seconds, or no end at all when the call passes no timeout
Unanswered(timeout) == IF timeout = "none" THEN "hang" ELSE "timeout"

\* cmd_build blocked for good in a call that never returns
Hung(log) == [bld EXCEPT !.step = "hung", !.log = log]

\* the head of the loop of cmd_build: the name check, the language check,
\* the build directory
BuildBegin ==
    /\ bld.step = "next"
    /\ bld.next <= Len(entries)
    /\ IF ~NameAccepted(Entry.name) \/ Entry.lang # "go"
       THEN /\ bld' = [bld EXCEPT !.next = @ + 1, !.log = <<>>]
            /\ UNCHANGED buildDir
       ELSE /\ bld' = [bld EXCEPT !.step = "clone", !.plat = 1, !.artifacts = {},
                                  !.shas = EmptyMap, !.log = <<>>]
            /\ buildDir' = [buildDir EXCEPT ![Entry.name].exists = TRUE]
    /\ UNCHANGED <<entries, volumes, releases, restOfRun>>

\* Step 0: git clone, 120 s
Clone ==
    /\ bld.step = "clone"
    /\ \E r \in {"ok", "nonzero", Unanswered("120")} :
          /\ buildDir' = [buildDir EXCEPT ![Entry.name].source = (r = "ok")]
          /\ bld' = IF r = "ok"
                    THEN [bld EXCEPT !.step = "volumes", !.log = Logged("clone", 0, TRUE)]
                    ELSE Returned(Logged("clone", 0, FALSE))
    /\ UNCHANGED <<entries, volumes, releases, restOfRun>>

\* Step 1: docker volume rm -f, docker volume create; the results are not
\* read and the calls pass no timeout
CreateVolumes ==
    /\ bld.step = "volumes"
    /\ \E r \in {"ok", "failed", Unanswered("none")} :
          /\ volumes' = IF r = "ok" THEN volumes \cup VolumesOf(Entry.name)
                        ELSE volumes \ VolumesOf(Entry.name)
          /\ bld' = IF r = "hang" THEN Hung(Logged("volumes", 0, FALSE))
                    ELSE [bld EXCEPT !.step = "stage", !.log = Logged("volumes", 0, r = "ok")]
    /\ UNCHANGED <<entries, buildDir, releases, restOfRun>>

\* the copy of the source into the volume, 60 s: the exit code is not read,
\* a timeout raises
Stage ==
    /\ bld.step = "stage"
    /\ \E r \in {"ok", "nonzero", Unanswered("60")} :
          LET box == CopyRun({<<<<"source_dir", Entry.name>>, "/host-src", "ro">>,
                               <<VolSrc(Entry.name), "/src", "rw">>})
          IN bld' = IF r = "timeout"
                    THEN Returned(LoggedRun("stage", 0, FALSE, box))
                    ELSE [bld EXCEPT !.step = "fetch",
                                     !.log = LoggedRun("stage", 0, r = "ok", box)]
    /\ UNCHANGED <<entries, volumes, buildDir, releases, restOfRun>>

\* the container of go mod download: network, source and module cache writable
FetchBox(name) ==
    DockerRun({<<VolSrc(name), "/src", "rw">>, <<VolMod(name), "/go/pkg/mod", "rw">>},
              TRUE, FALSE)

\* Step 2: go mod download in a container with network
FetchDependencies ==
    /\ bld.step = "fetch"
    /\ \E r \in {"ok", "nonzero", "none"} :
          IF r = "ok"
          THEN /\ bld' = [bld EXCEPT !.step = "build", !.plat = 1,
                                     !.log = LoggedRun("fetch", 0, TRUE, FetchBox(Entry.name))]
               /\ UNCHANGED volumes
          ELSE /\ bld' = Returned(LoggedRun("fetch", 0, FALSE, FetchBox(Entry.name)))
               /\ volumes' = CleanupVolumes(volumes, Entry.name)
    /\ UNCHANGED <<entries, buildDir, releases, restOfRun>>

\* the container of a go build: no network, read-only root, source and
\* module cache read-only, the output volume writable
BuildBox(name) ==
    DockerRun({<<VolSrc(name), "/src", "ro">>, <<VolMod(name), "/go/pkg/mod", "ro">>,
               <<VolOut(name), "/out", "rw">>}, FALSE, TRUE)

\* a loop that goes on to the copy of the artifact after a failed go build
Compile_Continue ==
    /\ bld.step = "build"
    /\ \E r \in {"ok", "nonzero", "none"} :
          bld' = [bld EXCEPT !.step = "collect",
                             !.log = LoggedRun("build", bld.plat, r = "ok", BuildBox(Entry.name))]
    /\ UNCHANGED <<entries, volumes, buildDir, releases, restOfRun>>

\* Step 3, first half: go build for one platform in a container without network
Compile ==
    /\ bld.step = "build"
    /\ \E r \in {"ok", "nonzero", "none"} :
          IF r = "ok"
          THEN /\ bld' = [bld EXCEPT !.step = "collect",
                                     !.log = LoggedRun("build", bld.plat, TRUE,
                                                       BuildBox(Entry.name))]
               /\ UNCHANGED volumes
          ELSE /\ bld' = Returned(LoggedRun("build", bld.plat, FALSE, BuildBox(Entry.name)))
               /\ volumes' = CleanupVolumes(volumes, Entry.name)
    /\ UNCHANGED <<entries, buildDir, releases, restOfRun>>

\* Step 3, second half: the copy of the artifact out of the volume (60 s, exit
\* code not read, a timeout raises), the existence and size checks, the digest
Collect ==
    /\ bld.step = "collect"
    /\ \E r \in {"ok", "nonzero", Unanswered("60")},
          size \in {MAX_ARTIFACT_SIZE, MAX_ARTIFACT_SIZE + 1} :
          LET p == bld.plat
              name == Entry.name
              kind == IF r = "ok" THEN "fresh" ELSE buildDir[name].art[p]
              last == p = Len(BUILD_PLATFORMS)
              box == CopyRun({<<VolOut(name), "/out", "ro">>,
                              <<<<"tmpl_build_dir", name>>, "/host-out", "rw">>})
          IN /\ buildDir' = [buildDir EXCEPT ![name].art[p] = kind]
             /\ IF r = "timeout"
                THEN /\ bld' = Returned(LoggedRun("collect", p, FALSE, box))
                     /\ UNCHANGED volumes
                ELSE IF kind = "absent" \/ size > MAX_ARTIFACT_SIZE
                THEN /\ bld' = Returned(LoggedRun("collect", p, FALSE, box))
                     /\ volumes' = CleanupVolumes(volumes, name)
                ELSE /\ bld' = [bld EXCEPT
                                  !.step = IF last THEN "hash" ELSE "build",
                                  !.plat = IF last THEN p ELSE p + 1,
                                  !.artifacts = @ \cup {p},
                                  !.shas = (BinaryFileName(name, BUILD_PLATFORMS[p][1],
                                                           BUILD_PLATFORMS[p][2])
                                               :> ArtifactSha(name, p, kind)) @@ @,
                                  !.log = LoggedRun("collect", p, r = "ok", box)]
                     /\ UNCHANGED volumes
    /\ UNCHANGED <<entries, releases, restOfRun>>

\* the place of a word in Python's order of str, among the words in which
\* the asset names of one template differ
WordRank(w) ==
    CASE w = "amd64" -> 1
      [] w = "arm64" -> 2
      [] w = "darwin" -> 3
      [] w = "linux" -> 4
      [] w = "windows" -> 5

\* Python's str < on two asset names of one template
RECURSIVE FileLess(_, _)
FileLess(f, g) ==
    IF g = <<>> THEN FALSE
    ELSE IF f = <<>> THEN TRUE
    ELSE IF Head(f) = Head(g) THEN FileLess(Tail(f), Tail(g))
    ELSE WordRank(Head(f)) < WordRank(Head(g))

\* sorted(sha256sums.items()): the file names in order
RECURSIVE SortedFiles(_)
SortedFiles(S) ==
    IF S = {} THEN <<>>
    ELSE LET m == CHOOSE x \in S : \A y \in S \ {x} : FileLess(x, y)
         IN <<m>> \o SortedFiles(S \ {m})

\* the lines of SHA256SUMS: f"{hash_val}  {asset_key}\n" in sorted order
SumsLines(shas) ==
    LET files == SortedFiles(DOMAIN shas)
    IN [i \in 1..Len(files) |-> <<shas[files[i]], files[i]>>]

\* the cleanup after the loop, the completeness check, Step 4: SHA256SUMS
Hash ==
    /\ bld.step = "hash"
    /\ volumes' = CleanupVolumes(volumes, Entry.name)
    /\ IF Cardinality(bld.artifacts) # Len(BUILD_PLATFORMS)
       THEN /\ bld' = Returned(Logged("hash", 0, FALSE))
            /\ UNCHANGED buildDir
       ELSE /\ bld' = [bld EXCEPT !.step = "publish", !.log = Logged("hash", 0, TRUE)]
            /\ buildDir' = [buildDir EXCEPT ![Entry.name].sums = SumsLines(bld.shas)]
    /\ UNCHANGED <<entries, releases, restOfRun>>

\* Step 5: gh release delete (result not read, no timeout), create (60 s),
\* upload (300 s)
Publish ==
    /\ bld.step = "publish"
    /\ \E del \in {"ok", "failed", Unanswered("none")},
          create \in {"ok", "nonzero", Unanswered("60")},
          upload \in {"ok", "nonzero", Unanswered("300")} :
          LET tag == ReleaseTag(Entry.name, Entry.version)
              before == IF tag \in DOMAIN releases THEN releases[tag] ELSE NoRelease
              deleted == IF del = "ok" THEN NoRelease ELSE before
              \* gh release create fails when the tag still has a release
              created == create = "ok" /\ ~deleted.exists
              afterCreate == IF created
                             THEN [exists |-> TRUE, origin |-> "run", assets |-> {},
                                   shas |-> EmptyMap]
                             ELSE deleted
              afterUpload == IF created /\ upload = "ok"
                             THEN [afterCreate EXCEPT
                                     !.assets = DOMAIN bld.shas \cup {SumsFileName},
                                     !.shas = bld.shas]
                             ELSE afterCreate
          IN /\ releases' = IF del = "hang" THEN releases ELSE (tag :> afterUpload) @@ releases
             /\ bld' = IF del = "hang"
                       THEN Hung(Logged("publish", 0, FALSE))
                       ELSE IF created /\ upload = "ok"
                       THEN [bld EXCEPT !.step = "metadata", !.log = Logged("publish", 0, TRUE)]
                       ELSE Returned(Logged("publish", 0, FALSE))
    /\ UNCHANGED <<entries, volumes, buildDir, restOfRun>>

\* a metadata record that looks the digests up by platform key, not by
\* asset name
VerifiedPlatforms_ByPlatKey(name, tag, shas) ==
    [p \in SeqToSet(BUILD_PLATFORMS) |->
        [url |-> <<REGISTRY_REPO, tag>> \o BinaryFileName(name, p[1], p[2]),
         sha256 |-> MapGet(shas, <<p[1], "-", p[2]>>)]]

\* the platforms of a verified build: the urls of the registry's own release
VerifiedPlatforms(name, tag, shas) ==
    [p \in SeqToSet(BUILD_PLATFORMS) |->
        [url |-> <<REGISTRY_REPO, tag>> \o BinaryFileName(name, p[1], p[2]),
         sha256 |-> MapGet(shas, BinaryFileName(name, p[1], p[2]))]]

\* Step 6: _extract_verified_metadata.  The clone's manifest.json and
\* example.md are first read here, so what the clone holds is drawn here.
ExtractMetadata ==
    /\ bld.step = "metadata"
    /\ \E srcManifest \in {NoManifest, ManifestOf(TRUE, Entry.name, Entry.version)},
          srcExample \in BOOLEAN,
          run \in SafeRunResults({NoManifest}, MAX_TYPST_SIZE),
          readme \in {"ok", "raise"} :
          LET name == Entry.name
              tag == ReleaseTag(name, Entry.version)
              haveBinary ==
                  \E p \in 1..Len(BUILD_PLATFORMS) :
                      BUILD_PLATFORMS[p] = curPlatform /\ buildDir[name].art[p] # "absent"
              \* result.stdout is written whatever its length
              wrote == srcExample /\ haveBinary /\ RunSucceeded(run)
              copied == [outDir[name] EXCEPT
                           !.exists = TRUE,
                           !.manifest = IF srcManifest.state # "absent" THEN srcManifest ELSE @,
                           !.example = IF srcExample THEN TRUE ELSE @,
                           !.typ = IF wrote THEN TRUE ELSE @,
                           !.size.typ = IF wrote THEN run.size ELSE @]
              meta == MetaOf(name, Entry.repo, Entry.owner, Entry.version, Entry.ref,
                             VerifiedPlatforms(name, tag, bld.shas), TRUE)
          IN IF readme = "raise"
             THEN /\ outDir' = [outDir EXCEPT ![name] = copied]
                  /\ bld' = Returned(Logged("metadata", 0, FALSE))
             ELSE /\ outDir' = [outDir EXCEPT ![name] = [copied EXCEPT !.readme = TRUE,
                                                                      !.meta = meta]]
                  /\ bld' = Returned(Logged("metadata", 0, TRUE))
    /\ UNCHANGED <<entries, volumes, buildDir, releases, pc, deploy, registry, deployRegistry,
                   templatesDir, verifiedNames, idx, inputVars, ext, cmp, io>>

\* the end of the loop of cmd_build; compile is the next subcommand
BuildFinish ==
    /\ pc = "build"
    /\ bld.step = "next"
    /\ bld.next > Len(entries)
    /\ pc' = "compile"
    /\ UNCHANGED <<outDir, deploy, registry, deployRegistry, templatesDir, verifiedNames, idx,
                   inputVars, buildVars, ext, cmp, io>>

(* ------------------------------------------------------------------ *)
(* Specification of cmd_index over arbitrary inputs                     *)
(* ------------------------------------------------------------------ *)

IndexDirNames == {NmA, NmB}
ManifestNames == {NmA, NmB, NmAB}
PriorNames == {NmA, NmB, NmAB}

OldPlatforms == [p \in {<<"linux", "amd64">>} |-> [url |-> <<"old-url">>, sha256 |-> <<"d1">>]]
NewPlatforms == [p \in {<<"linux", "amd64">>} |-> [url |-> <<"new-url">>, sha256 |-> <<"d2">>]]

PriorEntry(n, t) ==
    [name |-> n, version |-> "1.0", repo |-> "old/repo", trust |-> t,
     platforms |-> OldPlatforms, previewImages |-> PreviewImages(n, 1)]

\* the registries an earlier run can have left: sorted, one entry per name
PriorRegistries ==
    {SortedByName([i \in 1..Len(SortedNames(S)) |->
                      PriorEntry(SortedNames(S)[i], t[SortedNames(S)[i]])]) :
        <<S, t>> \in {<<S, t>> \in (SUBSET PriorNames) \X [PriorNames -> {"verified", "community"}] :
                         \A n \in PriorNames \ S : t[n] = "community"}}

IndexManifests ==
    {NoManifest, BadManifest}
        \cup {ManifestOf(FALSE, <<>>, "2.0")}
        \cup {ManifestOf(TRUE, n, "2.0") : n \in ManifestNames}

IndexMetas ==
    {NoMeta,
     MetaOf(NmA, "Presto-io/presto-official-templates", OFFICIAL_OWNER, "2.0", "v2.0", NewPlatforms, FALSE),
     MetaOf(NmA, "alice/tmpl", "alice", "2.0", "v2.0", NewPlatforms, FALSE),
     MetaOf(NmA, "alice/tmpl", "alice", "2.0", "v2.0", NewPlatforms, TRUE)}

IndexDeployDirs ==
    {NoDeployDir}
        \cup {[exists |-> TRUE, manifest |-> m, previews |-> k] :
                <<m, k>> \in {<<m, k>> \in IndexManifests \X {0, 1} :
                                 m.state # "ok" => k = 0}}

IndexOutDirs ==
    {NoOutDir} \cup {[NoOutDir EXCEPT !.exists = TRUE, !.meta = m] : m \in IndexMetas \ {NoMeta}}

InitIndex ==
    /\ deploy \in {f \in [AllNames -> IndexDeployDirs] :
                      \A n \in AllNames \ IndexDirNames : f[n] = NoDeployDir}
    /\ outDir \in {f \in [AllNames -> IndexOutDirs] :
                      /\ \A n \in AllNames \ IndexDirNames : f[n] = NoOutDir
                      /\ \A n \in IndexDirNames :
                            deploy[n].manifest.state # "ok" => f[n] = NoOutDir}
    /\ registry \in PriorRegistries
    /\ deployRegistry = <<>>
    /\ templatesDir = {}
    /\ verifiedNames \in SUBSET {NmB}
    /\ idx = IdxIdle
    /\ pc = "index"
    /\ discovered = <<>>
    /\ sums = NoSums
    /\ curPlatform = <<"linux", "amd64">>
    /\ ext = ExtIdle
    /\ cmp = CmpIdle
    /\ io = {}
    /\ sm = SmIdle
    /\ nm = NmIdle
    /\ up = NoUpstream
    /\ dsc = DscIdle
    /\ entries = <<>>
    /\ bld = BldIdle
    /\ volumes = {}
    /\ buildDir = [n \in AllNames |-> NoBuildDir]
    /\ releases = NoReleases

NextIndex == CmdIndex

SpecIndex == InitIndex /\ [][NextIndex]_vars

\* cmd_index over the same inputs, in a world where the process can die
NextIndexCrash ==
    \/ CmdIndex
    \/ IndexCrash

SpecIndexCrash == InitIndex /\ [][NextIndexCrash]_vars

(* ------------------------------------------------------------------ *)
(* Specification of a run: extract, compile, index                      *)
(* ------------------------------------------------------------------ *)

OfficialCandidate(n) ==
    [name |-> n, repo |-> OFFICIAL_REPO, owner |-> OFFICIAL_OWNER,
     version |-> "2.0", tag |-> "v2.0",
     assets |-> <<Asset(OFFICIAL_REPO, BinaryFileName(n, "linux", "amd64")),
                  Asset(OFFICIAL_REPO, BinaryFileName(n, "darwin", "arm64")),
                  Asset(OFFICIAL_REPO, SumsFileName)>>]

CommunityCandidate(n) ==
    [name |-> n, repo |-> "alice/tmpl", owner |-> "alice",
     version |-> "2.0", tag |-> "v2.0",
     assets |-> <<Asset("alice/tmpl", BinaryFileName(n, "linux", "amd64"))>>]

\* the lists discovered.json holds in the model: two candidates each
DiscoveredLists ==
    {<<OfficialCandidate(n), CommunityCandidate(NmB)>> : n \in AllNames}
    \cup {<<OfficialCandidate(NmA), OfficialCandidate(NmB)>>,
          <<OfficialCandidate(NmA), CommunityCandidate(NmA)>>,
          <<CommunityCandidate(NmA), OfficialCandidate(NmB)>>}

\* the digest SHA256SUMS lists for a file: right, altered, or none
ListedDigest(repo, fileName, status) ==
    IF status = "right" THEN Sha256(BytesAt(Asset(repo, fileName).url)) ELSE AlteredDigest

\* the official release's SHA256SUMS for the candidates of a list
OfficialSums(list, linux, darwin) ==
    LET names == {list[i].name : i \in {j \in 1..Len(list) : list[j].owner = OFFICIAL_OWNER}}
        files == {BinaryFileName(n, "linux", "amd64") : n \in IF linux = "none" THEN {} ELSE names}
                 \cup {BinaryFileName(n, "darwin", "arm64") :
                          n \in IF darwin = "none" THEN {} ELSE names}
    IN [f \in files |->
           ListedDigest(OFFICIAL_REPO, f, IF f[Len(f) - 2] = "linux" THEN linux ELSE darwin)]

DigestStatuses == {"right", "altered", "none"}

InitRun ==
    /\ pc = "extract"
    /\ discovered \in DiscoveredLists
    /\ \E linux \in DigestStatuses, darwin \in DigestStatuses \ {"none"} :
          sums = [k \in {<<OFFICIAL_REPO, "v2.0">>} |-> OfficialSums(discovered, linux, darwin)]
    /\ curPlatform \in {<<"linux", "amd64">>, <<"darwin", "arm64">>, <<"windows", "amd64">>}
    /\ registry = SortedByName(<<PriorEntry(NmA, "community"), PriorEntry(NmAB, "community")>>)
    /\ outDir = [n \in AllNames |-> NoOutDir]
    /\ deploy = [n \in AllNames |-> NoDeployDir]
    /\ deployRegistry = <<>>
    /\ templatesDir = {}
    /\ verifiedNames = {}
    /\ idx = IdxIdle
    /\ ext = ExtIdle
    /\ cmp = CmpIdle
    /\ io = {}
    /\ sm = SmIdle
    /\ nm = NmIdle
    /\ up = NoUpstream
    /\ dsc = DscIdle
    /\ entries = <<>>
    /\ bld = BldIdle
    /\ volumes = {}
    /\ buildDir = [n \in AllNames |-> NoBuildDir]
    /\ releases = NoReleases

NextRun ==
    \/ ExtractOne
    \/ ExtractFinish
    \/ CompileOne
    \/ CompileFinish
    \/ RunIndex

SpecRun == InitRun /\ [][NextRun]_vars

(* ------------------------------------------------------------------ *)
(* Specification of cmd_build                                           *)
(* ------------------------------------------------------------------ *)

VerifiedEntry(n, lang) ==
    [name |-> n, repo |-> "alice/tmpl", owner |-> "alice", ref |-> "v2.0",
     version |-> "2.0", lang |-> lang]

\* the lists verified-templates.json holds in the model: two entries each
EntryLists ==
    {<<VerifiedEntry(n, lang), VerifiedEntry(NmB, "go")>> :
        <<n, lang>> \in {NmA, NmUpper, NmNewline} \X {"go", "rust"}}

\* a build directory in which an earlier run left the clone and the
\* artifact of the first platform
StaleBuildDir ==
    [exists |-> TRUE, source |-> TRUE,
     art |-> [p \in 1..Len(BUILD_PLATFORMS) |-> IF p = 1 THEN "stale" ELSE "absent"],
     sums |-> EmptyMap]

\* the release an earlier build of b 2.0 published
PriorRelease ==
    [exists |-> TRUE, origin |-> "prior",
     assets |-> {BinaryFileName(NmB, BUILD_PLATFORMS[p][1], BUILD_PLATFORMS[p][2]) :
                    p \in 1..Len(BUILD_PLATFORMS)} \cup {SumsFileName},
     shas |-> [f \in {BinaryFileName(NmB, BUILD_PLATFORMS[p][1], BUILD_PLATFORMS[p][2]) :
                         p \in 1..Len(BUILD_PLATFORMS)} |-> <<"sha256", "prior">>]]

InitBuild ==
    /\ pc = "build"
    /\ entries \in EntryLists
    /\ bld = BldIdle
    /\ volumes = {}
    /\ buildDir \in {[n \in AllNames |-> NoBuildDir],
                     [n \in AllNames |-> IF n = NmB THEN StaleBuildDir ELSE NoBuildDir]}
    /\ releases \in {NoReleases,
                     [t \in {ReleaseTag(NmB, "2.0")} |-> PriorRelease]}
    /\ outDir = [n \in AllNames |-> NoOutDir]
    /\ deploy = [n \in AllNames |-> NoDeployDir]
    /\ registry = <<>>
    /\ deployRegistry = <<>>
    /\ templatesDir = {}
    /\ verifiedNames = {entries[i].name : i \in 1..Len(entries)}
    /\ idx = IdxIdle
    /\ discovered = <<>>
    /\ sums = NoSums
    /\ curPlatform = <<"linux", "amd64">>
    /\ ext = ExtIdle
    /\ cmp = CmpIdle
    /\ io = {}
    /\ sm = SmIdle
    /\ nm = NmIdle
    /\ up = NoUpstream
    /\ dsc = DscIdle

NextBuild ==
    \/ BuildBegin
    \/ Clone
    \/ CreateVolumes
    \/ Stage
    \/ FetchDependencies
    \/ Compile
    \/ Collect
    \/ Hash
    \/ Publish
    \/ ExtractMetadata

SpecBuild == InitBuild /\ [][NextBuild]_vars

(* ------------------------------------------------------------------ *)
(* Specification of a run over the verified templates: build, compile,  *)
(* index                                                                *)
(* ------------------------------------------------------------------ *)

\* the registry an earlier run left for the verified templates, if any
BuildPriorRegistries ==
    {<<>>, SortedByName(<<PriorEntry(NmA, "verified"), PriorEntry(NmB, "verified")>>)}

InitBuildRun ==
    /\ pc = "build"
    /\ entries \in EntryLists
    /\ bld = BldIdle
    /\ volumes = {}
    /\ buildDir \in {[n \in AllNames |-> NoBuildDir],
                     [n \in AllNames |-> IF n = NmB THEN StaleBuildDir ELSE NoBuildDir]}
    /\ releases \in {NoReleases,
                     [t \in {ReleaseTag(NmB, "2.0")} |-> PriorRelease]}
    /\ outDir = [n \in AllNames |-> NoOutDir]
    /\ deploy = [n \in AllNames |-> NoDeployDir]
    /\ registry \in BuildPriorRegistries
    /\ deployRegistry = <<>>
    /\ templatesDir = {}
    /\ verifiedNames = {entries[i].name : i \in 1..Len(entries)}
    /\ idx = IdxIdle
    /\ discovered = <<>>
    /\ sums = NoSums
    /\ curPlatform = <<"linux", "amd64">>
    /\ ext = ExtIdle
    /\ cmp = CmpIdle
    /\ io = {}
    /\ sm = SmIdle
    /\ nm = NmIdle
    /\ up = NoUpstream
    /\ dsc = DscIdle

NextBuildRun ==
    \/ NextBuild
    \/ BuildFinish
    \/ CompileOne
    \/ CompileFinish
    \/ RunIndex

SpecBuildRun == InitBuildRun /\ [][NextBuildRun]_vars

(* ------------------------------------------------------------------ *)
(* Specification of parse_sha256sums over SHA256SUMS texts              *)
(* ------------------------------------------------------------------ *)

\* the texts of at most n characters
RECURSIVE TextsUpTo(_)
TextsUpTo(n) ==
    IF n = 0 THEN {<<>>}
    ELSE TextsUpTo(n - 1)
            \cup {Append(t, c) : <<t, c>> \in {t \in TextsUpTo(n - 1) : Len(t) = n - 1} \X TextChars}

InitSums ==
    /\ sm \in {[SmIdle EXCEPT !.pc = "text", !.content = t] : t \in TextsUpTo(MaxTextLen)}
    /\ pc = "sums"
    /\ outDir = [n \in AllNames |-> NoOutDir]
    /\ deploy = [n \in AllNames |-> NoDeployDir]
    /\ registry = <<>>
    /\ deployRegistry = <<>>
    /\ templatesDir = {}
    /\ verifiedNames = {}
    /\ idx = IdxIdle
    /\ discovered = <<>>
    /\ sums = NoSums
    /\ curPlatform = <<"linux", "amd64">>
    /\ ext = ExtIdle
    /\ cmp = CmpIdle
    /\ io = {}
    /\ entries = <<>>
    /\ bld = BldIdle
    /\ volumes = {}
    /\ buildDir = [n \in AllNames |-> NoBuildDir]
    /\ releases = NoReleases
    /\ nm = NmIdle
    /\ up = NoUpstream
    /\ dsc = DscIdle

NextSums ==
    \/ ParseText
    \/ WriteText
    \/ ParseAgain

SpecSums == InitSums /\ [][NextSums]_vars

(* ------------------------------------------------------------------ *)
(* Specification of extract_template_names and the platform lookups     *)
(* ------------------------------------------------------------------ *)

\* the file names of the assets of a release: binaries of the three
\* operating systems, of a name of two words, with and without ".exe",
\* with the prefix and without, and other files
AssetFileNames ==
    {BinaryFileName(NmA, "linux", "amd64"),
     BinaryFileName(NmA, "windows", "amd64"),
     BinaryFileName(NmAB, "darwin", "arm64"),
     BinaryFileName(NmB, "linux", "arm64") \o <<".exe">>,
     SubSeq(BinaryFileName(NmB, "windows", "arm64"), 1, 9),
     BinaryFileName(NmUpper, "linux", "amd64"),
     <<"presto", "-", "template", "-", "b", "-", "plan9", "-", "amd64">>,
     <<"presto", "-", "template", "-", "b", "-", "linux">>,
     <<"other", "-", "b", "-", "linux", "-", "amd64">>,
     SumsFileName}

InitNames ==
    /\ nm \in {[NmIdle EXCEPT !.pc = "assets", !.assets = l] :
                  l \in UNION {[1..k -> {Asset("alice/tmpl", f) : f \in AssetFileNames}] :
                                  k \in 0..MaxAssets}}
    /\ sm = SmIdle
    /\ pc = "names"
    /\ outDir = [n \in AllNames |-> NoOutDir]
    /\ deploy = [n \in AllNames |-> NoDeployDir]
    /\ registry = <<>>
    /\ deployRegistry = <<>>
    /\ templatesDir = {}
    /\ verifiedNames = {}
    /\ idx = IdxIdle
    /\ discovered = <<>>
    /\ sums = NoSums
    /\ curPlatform = <<"linux", "amd64">>
    /\ ext = ExtIdle
    /\ cmp = CmpIdle
    /\ io = {}
    /\ entries = <<>>
    /\ bld = BldIdle
    /\ volumes = {}
    /\ buildDir = [n \in AllNames |-> NoBuildDir]
    /\ releases = NoReleases
    /\ up = NoUpstream
    /\ dsc = DscIdle

NextNames ==
    \/ ExtractNames
    \/ LookupPlatforms

SpecNames == InitNames /\ [][NextNames]_vars

(* ------------------------------------------------------------------ *)
(* Specification of cmd_discover                                        *)
(* ------------------------------------------------------------------ *)

\* the latest release of the official repository: none, one template, two
\* templates of one release, or a release without binaries
OfficialLatests ==
    {NoLatest,
     Latest("v2.0", OfficialCandidate(NmA).assets),
     Latest("v2.1", OfficialCandidate(NmA).assets),
     Latest("v2.0", <<Asset(OFFICIAL_REPO, BinaryFileName(NmA, "linux", "amd64")),
                      Asset(OFFICIAL_REPO, BinaryFileName(NmAB, "darwin", "arm64"))>>),
     Latest("v2.0", <<Asset(OFFICIAL_REPO, SumsFileName)>>)}

\* the answers of the topic search: an error, or repositories of the topic
Searches ==
    {[status |-> 403, items |-> <<>>]}
        \cup {[status |-> 200, items |-> l] :
                 l \in {<<>>,
                        <<Repo("alice/tmpl", "alice", NoLatest)>>,
                        <<Repo("alice/tmpl", "alice", Latest("v2.0", CommunityCandidate(NmB).assets))>>,
                        <<Repo("alice/tmpl", "alice", Latest("2.0", CommunityCandidate(NmA).assets))>>,
                        <<Repo(OFFICIAL_REPO, OFFICIAL_OWNER, Latest("v2.0", OfficialCandidate(NmA).assets)),
                          Repo("alice/tmpl", "alice",
                               Latest("v2.1", <<Asset("alice/tmpl", <<"README">>)>>))>>}}

Upstreams ==
    {[force |-> f, official |-> o, search |-> q] :
        <<f, o, q>> \in BOOLEAN \X OfficialLatests \X Searches}

\* an entry that an earlier run recorded with a version
RecordedEntry(n, v) == [PriorEntry(n, "community") EXCEPT !.version = v]

\* the registries cmd_discover compares with: one entry per name
DiscoverRegistries ==
    {<<>>,
     <<RecordedEntry(NmA, "2.0")>>,
     <<RecordedEntry(NmA, "1.0"), RecordedEntry(NmAB, "2.0"), RecordedEntry(NmB, "2.0")>>}

InitDiscover ==
    /\ pc = "discover"
    /\ up \in Upstreams
    /\ dsc = DscIdle
    /\ registry \in DiscoverRegistries
    /\ discovered = <<>>
    /\ sums = NoSums
    /\ curPlatform = <<"linux", "amd64">>
    /\ sm = SmIdle
    /\ nm = NmIdle
    /\ outDir = [n \in AllNames |-> NoOutDir]
    /\ deploy = [n \in AllNames |-> NoDeployDir]
    /\ deployRegistry = <<>>
    /\ templatesDir = {}
    /\ verifiedNames = {}
    /\ idx = IdxIdle
    /\ ext = ExtIdle
    /\ cmp = CmpIdle
    /\ io = {}
    /\ entries = <<>>
    /\ bld = BldIdle
    /\ volumes = {}
    /\ buildDir = [n \in AllNames |-> NoBuildDir]
    /\ releases = NoReleases

NextDiscover == CmdDiscover

SpecDiscover == InitDiscover /\ [][NextDiscover]_vars

(* ------------------------------------------------------------------ *)
(* Specification of two runs in a row: discover, extract, compile,      *)
(* index, and the discover of the next run                              *)
(* ------------------------------------------------------------------ *)

\* upstream of the two runs: the official release of template a under a tag,
\* and a community repository or a failed search
PipelineUpstreams ==
    {[force |-> FALSE, official |-> Latest(tag, OfficialCandidate(NmA).assets), search |-> q] :
        <<tag, q>> \in {"v2.0", "v2.1"}
                        \X {[status |-> 403, items |-> <<>>],
                            [status |-> 200,
                             items |-> <<Repo("alice/tmpl", "alice",
                                              Latest("v2.0", CommunityCandidate(NmB).assets))>>]}}

InitPipeline ==
    /\ pc = "discover"
    /\ up \in PipelineUpstreams
    /\ dsc = DscIdle
    /\ registry \in {<<>>, <<RecordedEntry(NmA, "1.0")>>}
    /\ discovered = <<>>
    /\ sums = [k \in {<<OFFICIAL_REPO, up.official.tag>>} |->
                  OfficialSums(<<OfficialCandidate(NmA)>>, "right", "right")]
    /\ curPlatform = <<"linux", "amd64">>
    /\ sm = SmIdle
    /\ nm = NmIdle
    /\ outDir = [n \in AllNames |-> NoOutDir]
    /\ deploy = [n \in AllNames |-> NoDeployDir]
    /\ deployRegistry = <<>>
    /\ templatesDir = {}
    /\ verifiedNames = {}
    /\ idx = IdxIdle
    /\ ext = ExtIdle
    /\ cmp = CmpIdle
    /\ io = {}
    /\ entries = <<>>
    /\ bld = BldIdle
    /\ volumes = {}
    /\ buildDir = [n \in AllNames |-> NoBuildDir]
    /\ releases = NoReleases

NextPipeline ==
    \/ CmdDiscover
    \/ ExtractOne
    \/ ExtractFinish
    \/ CompileOne
    \/ CompileFinish
    \/ RunIndex
    \/ DiscoverAgain

SpecPipeline == InitPipeline /\ [][NextPipeline]_vars

(* ------------------------------------------------------------------ *)
(* Claims about cmd_index                                               *)
(* ------------------------------------------------------------------ *)

\* C1: every entry of the registry that cmd_index loaded whose name is not
\* the name of a fresh entry is in the registry it wrote, unchanged.
C1_UntouchedPreserved ==
    idx.status = "written" =>
        \A i \in 1..Len(idx.existing) :
            idx.existing[i].name \notin EntryNames(idx.templates)
                => \E j \in 1..Len(registry) : registry[j] = idx.existing[i]

\* a run that replaced one prior entry and carried another one over
C1_Witness ==
    /\ idx.status = "written"
    /\ \E i \in 1..Len(idx.existing) : idx.existing[i].name \in EntryNames(idx.templates)
    /\ \E i \in 1..Len(idx.existing) : idx.existing[i].name \notin EntryNames(idx.templates)

\* C2: no two entries of a registry written by cmd_index share a name.
C2_NamesUnique ==
    idx.status = "written" =>
        \A i, j \in 1..Len(registry) : registry[i].name = registry[j].name => i = j

(* ------------------------------------------------------------------ *)
(* Claims about a run: extract, compile, index                          *)
(* ------------------------------------------------------------------ *)

\* the candidates of this run whose extraction wrote a meta.json
WroteMeta == {e.cand : e \in {x \in io : x.op = "write" /\ x.what = "meta.json"}}

\* the registry holds the record that meta.json holds for a name
Indexed(meta) ==
    \E j \in 1..Len(registry) :
        /\ registry[j].name = meta.name
        /\ registry[j].repo = meta.repo
        /\ registry[j].platforms = meta.platforms

\* C3: once compile and index have run and the registry is written, every
\* meta.json that extraction wrote in this run is an entry of the registry
\* under its name.
C3_FreshRecordsIndexed ==
    (pc = "done" /\ idx.status = "written") =>
        \A c \in WroteMeta : Indexed(outDir[discovered[c].name].meta)

\* the binary of a result was downloaded and its digest is not the expected one
DigestDiffers(r) ==
    r.check.bytes # <<>> /\ r.check.expected # <<>> /\ Sha256(r.check.bytes) # r.check.expected

\* C4: when the digest of the downloaded binary differs from the expected
\* digest, the candidate's extraction ends there: the binary is unlinked and
\* gone when the handler returns, it was never run, and the candidate wrote
\* no manifest, example, document, readme or metadata record.
C4_DigestGate ==
    \A k \in 1..Len(ext.results) :
        LET r == ext.results[k]
        IN DigestDiffers(r) =>
              /\ r.result = "digest_mismatch"
              /\ [cand |-> r.cand, op |-> "unlink", what |-> "binary"] \in io
              /\ \A e \in io : e.cand = r.cand =>
                    /\ e.op # "exec"
                    /\ e.op = "write" => e.what = "binary"
              /\ k = Len(ext.results) /\ pc = "extract"
                    => ~outDir[discovered[r.cand].name].binary

\* a candidate whose binary was downloaded and failed the digest check
C4_Witness ==
    \E k \in 1..Len(ext.results) :
        DigestDiffers(ext.results[k]) /\ ext.results[k].result = "digest_mismatch"

\* C5: a binary that was downloaded and for which no expected digest is
\* available is reported unverifiable and is not let through the gate: it
\* is not run.
C5_MissingDigestNotSuccess ==
    \A k \in 1..Len(ext.results) :
        LET r == ext.results[k]
        IN (r.check.bytes # <<>> /\ r.check.expected = <<>>) =>
              /\ r.check.verification = "unknown"
              /\ \A e \in io : e.cand = r.cand => e.op # "exec"

LinuxAmd64 == <<"linux", "amd64">>
DarwinArm64 == <<"darwin", "arm64">>

\* the checksum manifest that extraction used for a candidate lists an
\* altered digest for its linux binary and the right one for its darwin binary
LinuxAlteredOnly(tmpl) ==
    /\ CacheKey(tmpl) \in DOMAIN ext.cache
    /\ LET map == ext.cache[CacheKey(tmpl)]
           linux == BinaryFileName(tmpl.name, "linux", "amd64")
           darwin == BinaryFileName(tmpl.name, "darwin", "arm64")
       IN /\ MapGet(map, linux) = AlteredDigest
          /\ MapGet(map, darwin) = Sha256(BytesAt(Asset(tmpl.repo, darwin).url))

\* C6: when the checksum manifest is wrong for one platform's binary only
\* and nothing else fails, the handler leaves a metadata record that holds
\* the other platform's entry and not the entry of the mismatching one.
C6_MismatchPerPlatform ==
    (pc = "extract" /\ ext.results # <<>>) =>
        LET r == ext.results[Len(ext.results)]
            tmpl == discovered[r.cand]
            meta == outDir[tmpl.name].meta
        IN (/\ tmpl.owner = OFFICIAL_OWNER
            /\ r.result \in {"ok", "digest_mismatch"}
            /\ LinuxAlteredOnly(tmpl))
           => /\ meta.state = "ok"
              /\ DarwinArm64 \in DOMAIN meta.platforms
              /\ LinuxAmd64 \notin DOMAIN meta.platforms

\* C7: the run does nothing to the world (no directory, no fetch, no
\* execution, no write) for a candidate whose name is not an identifier.
C7_InvalidNameNoIO ==
    \A e \in io : IsIdentifier(discovered[e.cand].name)

\* C8: whatever fails for one candidate, every candidate of the list is
\* processed by extract, and index writes the registry.
C8_FailuresContained ==
    /\ pc # "extract" => \A c \in 1..Len(discovered) :
                            \E k \in 1..Len(ext.results) : ext.results[k].cand = c
    /\ pc = "done" => idx.status = "written"

(* ------------------------------------------------------------------ *)
(* Claims about cmd_build                                               *)
(* ------------------------------------------------------------------ *)

\* the place of a step in CLONE, STAGE, FETCH_DEPENDENCIES, BUILD x 6, HASH,
\* PUBLISH, EXTRACT_METADATA (volume creation before STAGE, the copy of an
\* artifact out of the volume after its BUILD)
StepRank(e) ==
    CASE e.step = "clone" -> 1
      [] e.step = "volumes" -> 2
      [] e.step = "stage" -> 3
      [] e.step = "fetch" -> 4
      [] e.step = "build" -> 3 + 2 * e.plat
      [] e.step = "collect" -> 4 + 2 * e.plat
      [] e.step = "hash" -> 5 + 2 * Len(BUILD_PLATFORMS)
      [] e.step = "publish" -> 6 + 2 * Len(BUILD_PLATFORMS)
      [] e.step = "metadata" -> 7 + 2 * Len(BUILD_PLATFORMS)

\* C9: the steps of a template run in the order of the state machine, and a
\* step that failed is the last step of the template.
C9_FirstFailureTerminal ==
    \A i \in 1..Len(bld.log) :
        i < Len(bld.log) =>
            /\ StepRank(bld.log[i]) < StepRank(bld.log[i + 1])
            /\ bld.log[i].ok

\* C10: when cmd_build is between two templates, none of the volumes of a
\* template exists.
C10_VolumesRemoved ==
    bld.step = "next" => volumes = {}

\* the entry of verified-templates.json that the log of steps belongs to
BuiltEntry == entries[IF bld.step = "next" THEN bld.next - 1 ELSE bld.next]

\* the go build of one of the platforms failed for the template of the log
CompileFailed == \E i \in 1..Len(bld.log) : bld.log[i].step = "build" /\ ~bld.log[i].ok

C12_TrustBoundary ==
    LET name == BuiltEntry.name
    IN \A i \in 1..Len(bld.log) :
          LET e == bld.log[i]
          IN /\ e.step = "fetch" =>
                   /\ e.box.ran /\ ~e.box.networkNone
                   /\ \A j \in 1..Len(bld.log) : bld.log[j].step = "fetch" => j = i
             /\ e.step = "build" =>
                   /\ e.box.ran /\ e.box.networkNone /\ e.box.readOnlyRoot
                   /\ {m \in e.box.mounts : m[3] = "rw"} = {<<VolOut(name), "/out", "rw">>}
                   /\ {m[1] : m \in {x \in e.box.mounts : x[3] = "ro"}}
                         = {VolSrc(name), VolMod(name)}
                   /\ \E j \in 1..(i - 1) : bld.log[j].step = "fetch" /\ bld.log[j].ok
             /\ (e.box.ran /\ i < Len(bld.log)) => StepRank(e) < StepRank(bld.log[i + 1])

\* a template whose six BUILD steps all ran after its FETCH_DEPENDENCIES
C12_Witness ==
    /\ \E i \in 1..Len(bld.log) : bld.log[i].step = "fetch" /\ bld.log[i].ok
    /\ \A p \in 1..Len(BUILD_PLATFORMS) :
          \E i \in 1..Len(bld.log) : bld.log[i].step = "build" /\ bld.log[i].plat = p

\* C13: cmd_build is never blocked for good in an external call: whatever
\* the other side does, each call returns or times out.
C13_NoUnboundedWait == bld.step # "hung"

(* ------------------------------------------------------------------ *)
(* Claims about the sandbox                                             *)
(* ------------------------------------------------------------------ *)

\* what a candidate did to the world
Did(cand, op, what) == [cand |-> cand, op |-> op, what |-> what] \in io

C15_OutputBounded ==
    \A n \in DOMAIN outDir :
        /\ outDir[n].size.manifest <= MAX_MANIFEST_SIZE
        /\ outDir[n].size.example <= MAX_EXAMPLE_SIZE
        /\ outDir[n].size.typ <= MAX_TYPST_SIZE

(* ------------------------------------------------------------------ *)
(* Claims about the merge of cmd_index                                  *)
(* ------------------------------------------------------------------ *)

\* the trust of an entry by the data of this run: the owner of its
\* repository, the verified marker of its meta.json if it has one, and the
\* names in verified-templates.json
CurrentTrust(e) ==
    IF e.repo = OFFICIAL_REPO THEN "official"
    ELSE IF outDir[e.name].meta.verified \/ e.name \in verifiedNames THEN "verified"
    ELSE "community"

\* C16: in a registry that cmd_index wrote, the trust of every fresh entry
\* is the one computed from its meta.json and the verified list (official,
\* then verified, then community), and so is the trust of every entry
\* carried over from the loaded registry.
C16_TrustRecomputed ==
    idx.status = "written" =>
        /\ \A i \in 1..Len(idx.templates) :
              LET d == IndexedDirs(deploy)[i]
              IN idx.templates[i].trust = TrustOf(outDir[d].meta, d, verifiedNames)
        /\ \A k \in 1..Len(idx.existing) :
              idx.existing[k].name \notin EntryNames(idx.templates) =>
                 \A j \in 1..Len(registry) :
                    registry[j].name = idx.existing[k].name
                       => registry[j].trust = CurrentTrust(registry[j])

\* C17: when cmd_index runs again on the same deploy directory with the
\* registry it wrote as the loaded registry, it writes that same registry
\* again, in both places.
C17_MergeIdempotent ==
    (idx.runs >= 2 /\ idx.status = "written") =>
        /\ registry = idx.existing
        /\ deployRegistry = idx.existing

\* a second run of cmd_index that had fresh entries and carried entries over
C17_Witness ==
    /\ idx.runs = 2
    /\ idx.status = "written"
    /\ idx.templates # <<>>
    /\ \E k \in 1..Len(idx.existing) : idx.existing[k].name \notin EntryNames(idx.templates)
    /\ \E k \in 1..Len(idx.existing) : idx.existing[k].name \in EntryNames(idx.templates)

\* the orders in which the elements of a list can be supplied
Reorderings(s) == {[i \in 1..Len(s) |-> s[f[i]]] : f \in Permutations(1..Len(s))}

\* C18: the entry list that cmd_index wrote is sorted by name, and the merge
\* of the same fresh entries and the same loaded entries supplied in any
\* other order is that same list.
C18_OrderIndependent ==
    idx.status = "written" =>
        /\ \A i, j \in 1..Len(registry) :
              i < j => ~StrLess(registry[j].name, registry[i].name)
        /\ \A p \in Reorderings(idx.templates), q \in Reorderings(idx.existing) :
              BuildRegistry(p, q) = registry

\* C19: whenever cmd_index has ended, by its last line or by a crash in its
\* writes, REGISTRY_JSON holds either the registry that was loaded or the
\* complete registry of this run, and a deploy/registry.json that was
\* written holds the same registry as REGISTRY_JSON.
C19_RegistryAtomic ==
    idx.status \in {"written", "crashed"} =>
        /\ registry \in {idx.existing, BuildRegistry(idx.templates, idx.existing)}
        /\ deployRegistry # <<>> => deployRegistry = registry

(* ------------------------------------------------------------------ *)
(* Claims about PUBLISH                                                 *)
(* ------------------------------------------------------------------ *)

\* the publish step of the template of the log ended with success
Published == \E i \in 1..Len(bld.log) : bld.log[i].step = "publish" /\ bld.log[i].ok

\* C20: when the publish step of a template succeeds, also when a release
\* of its tag existed before, the tag has one release, created by this run,
\* that holds the six artifacts this run built and its SHA256SUMS.
C20_PublishIdempotent ==
    Published =>
        LET name == BuiltEntry.name
            tag == ReleaseTag(name, BuiltEntry.version)
            files == [p \in 1..Len(BUILD_PLATFORMS) |->
                         BinaryFileName(name, BUILD_PLATFORMS[p][1], BUILD_PLATFORMS[p][2])]
        IN /\ tag \in DOMAIN releases
           /\ releases[tag].exists /\ releases[tag].origin = "run"
           /\ releases[tag].assets = SeqToSet(files) \cup {SumsFileName}
           /\ \A p \in 1..Len(BUILD_PLATFORMS) :
                 releases[tag].shas[files[p]] = ArtifactSha(name, p, "fresh")

\* the publish step of the template of the log failed and the build returned
PublishFailed ==
    /\ bld.step = "next"
    /\ bld.log # <<>>
    /\ bld.log[Len(bld.log)].step = "publish"
    /\ ~bld.log[Len(bld.log)].ok

\* C21: when gh release create or gh release upload fails, the release
\* location holds no release created by this run for the template, and no
\* meta.json is written for it.
C21_PublishFailureLocalOnly ==
    PublishFailed =>
        LET tag == ReleaseTag(BuiltEntry.name, BuiltEntry.version)
        IN /\ tag \in DOMAIN releases =>
                 ~(releases[tag].exists /\ releases[tag].origin = "run")
           /\ outDir[BuiltEntry.name].meta.state = "absent"

(* ------------------------------------------------------------------ *)
(* Claims about the digests of a verified build                         *)
(* ------------------------------------------------------------------ *)

\* SHA256SUMS of the template of the log was written
HashDone == \E i \in 1..Len(bld.log) : bld.log[i].step = "hash" /\ bld.log[i].ok

\* meta.json of the template of the log was written by the build
MetadataDone == \E i \in 1..Len(bld.log) : bld.log[i].step = "metadata" /\ bld.log[i].ok

\* the asset name of the p-th build platform of a template
BuiltFile(name, p) == BinaryFileName(name, BUILD_PLATFORMS[p][1], BUILD_PLATFORMS[p][2])

\* C22: once SHA256SUMS is written, it has one line per build platform, six
\* in all, in the order of the file names, each with the digest of the file
\* of that name in the build directory; and the digest that meta.json
\* records for a platform is the one SHA256SUMS lists for its file.
C22_HashChain ==
    HashDone =>
        LET name == BuiltEntry.name
            lines == buildDir[name].sums
        IN /\ Len(lines) = Len(BUILD_PLATFORMS)
           /\ \A i, j \in 1..Len(lines) : i < j => FileLess(lines[i][2], lines[j][2])
           /\ \A p \in 1..Len(BUILD_PLATFORMS) :
                 \E i \in 1..Len(lines) :
                    /\ lines[i][2] = BuiltFile(name, p)
                    /\ lines[i][1] = ArtifactSha(name, p, buildDir[name].art[p])
                    /\ MetadataDone =>
                          outDir[name].meta.platforms[BUILD_PLATFORMS[p]].sha256 = lines[i][1]

\* a build that wrote SHA256SUMS, published and wrote meta.json
C22_Witness == HashDone /\ MetadataDone /\ outDir[BuiltEntry.name].meta.verified

(* ------------------------------------------------------------------ *)
(* Claims about parse_sha256sums                                        *)
(* ------------------------------------------------------------------ *)

\* C23: a SHA256SUMS text, parsed, written again in the line format
\* "<digest>  <filename>" and parsed again, gives the mapping of file names
\* to digests that the first parse gave.
C23_RoundTrip == sm.pc = "done" => sm.again = sm.first

(* ------------------------------------------------------------------ *)
(* Claims about extract_template_names and the platform lookups         *)
(* ------------------------------------------------------------------ *)

\* the triples that the file names of an asset list encode in the form
\* presto-template-<name>-<os>-<arch>, with .exe for windows
EncodedTriples(assets) ==
    {<<n, p[1], p[2]>> :
        <<n, p>> \in {<<n, p>> \in {m \in AllNames : IsIdentifier(m)} \X SeqToSet(ALL_PLATFORMS) :
                        \E i \in 1..Len(assets) : assets[i].name = BinaryFileName(n, p[1], p[2])}}

\* the triples that the extractor and collect_platforms recover
RecoveredTriples ==
    {<<nm.names[i], p[1], p[2]>> :
        <<i, p>> \in {<<i, p>> \in (1..Len(nm.names)) \X SeqToSet(ALL_PLATFORMS) :
                        p \in DOMAIN nm.platforms[i]}}

\* C25: for an asset list, the names that extract_template_names returns,
\* with the platforms that collect_platforms and find_binary_asset resolve
\* for them, are exactly the (template, os, arch) triples that the file
\* names encode, and every name returned has at least one platform that
\* the lookups resolve.
C25_TriplesRecovered ==
    nm.pc = "done" =>
        /\ RecoveredTriples = EncodedTriples(nm.assets)
        /\ nm.found = RecoveredTriples
        /\ \A i \in 1..Len(nm.names) : DOMAIN nm.platforms[i] # {}

(* ------------------------------------------------------------------ *)
(* Claims about cmd_discover                                            *)
(* ------------------------------------------------------------------ *)

\* the latest releases that the API returned to cmd_discover: the one of
\* the official repository, and those of the other repositories of the
\* topic
ReturnedReleases ==
    (IF up.official.status = 200 THEN {up.official} ELSE {})
        \cup (IF up.search.status = 200
              THEN {up.search.items[i].latest :
                       i \in {j \in 1..Len(up.search.items) :
                                 /\ up.search.items[j].full_name # OFFICIAL_REPO
                                 /\ up.search.items[j].latest.status = 200}}
              ELSE {})

\* the template names that the assets of a release encode in the naming
\* convention
EncodedNames(assets) == {t[1] : t \in EncodedTriples(assets)}

\* the version the registry records for a name, "" when it has none
RecordedVersion(n) ==
    IF \E i \in 1..Len(registry) : registry[i].name = n
    THEN registry[CHOOSE i \in 1..Len(registry) : registry[i].name = n].version
    ELSE ""

\* the (template, version) pairs of discovered.json
DiscoveredPairs == {<<discovered[i].name, discovered[i].version>> : i \in 1..Len(discovered)}

C26_OneCandidatePerName ==
    dsc.status = "written" =>
        \A i, j \in 1..Len(discovered) : i # j => discovered[i].name # discovered[j].name

(* ------------------------------------------------------------------ *)
(* Claims about the trust of built templates                            *)
(* ------------------------------------------------------------------ *)

\* the deploy directory that the i-th fresh entry of cmd_index was read from
IndexedDir(i) == IndexedDirs(deploy)[i]

\* the platforms of a meta.json all point at a release of the registry's
\* own repository
RegistryUrls(meta) ==
    /\ DOMAIN meta.platforms # {}
    /\ \A p \in DOMAIN meta.platforms : meta.platforms[p].url[1] = REGISTRY_REPO

\* C27: whenever cmd_index gives a deploy directory the trust "verified",
\* the meta.json it read for the directory carries the verified marker and
\* its platform urls point at the release of the registry's own repository.
C27_VerifiedMeansBuilt ==
    (pc = "done" /\ idx.status = "written") =>
        \A i \in 1..Len(idx.templates) :
            idx.templates[i].trust = "verified" =>
                /\ outDir[IndexedDir(i)].meta.verified
                /\ RegistryUrls(outDir[IndexedDir(i)].meta)

(* ------------------------------------------------------------------ *)
(* Claims about the artifacts of a verified build                       *)
(* ------------------------------------------------------------------ *)

\* the digest is the one of an artifact that this run compiled
OfThisRun(digest) == digest[4] = "fresh"

\* C29: every artifact that the build hashes, lists in SHA256SUMS or
\* uploads was compiled by this run: no digest in the dict of the build, no
\* line of a SHA256SUMS it wrote and no asset of a release it created is
\* that of a file that an earlier run left in the build directory.
C29_NoStaleArtifact ==
    /\ \A f \in DOMAIN bld.shas : OfThisRun(bld.shas[f])
    /\ \A n \in AllNames :
          \A i \in 1..Len(buildDir[n].sums) : OfThisRun(buildDir[n].sums[i][1])
    /\ \A t \in DOMAIN releases :
          releases[t].origin = "run" =>
              \A f \in DOMAIN releases[t].shas : OfThisRun(releases[t].shas[f])

\* C30: a publish step that fails leaves a release that existed under the
\* tag of the template as it was, with its artifacts.
C30_FailedPublishKeepsRelease ==
    [][(/\ bld.step = "publish"
        /\ bld'.step = "next"
        /\ ReleaseTag(Entry.name, Entry.version) \in DOMAIN releases
        /\ releases[ReleaseTag(Entry.name, Entry.version)].exists)
       => releases'[ReleaseTag(Entry.name, Entry.version)]
             = releases[ReleaseTag(Entry.name, Entry.version)]]_vars

(* ------------------------------------------------------------------ *)
(* Claims about runs in a row                                           *)
(* ------------------------------------------------------------------ *)

\* the candidates of the first run's list that were extracted with success,
\* whose document compiled, and whose directory the index read into the
\* registry it wrote
SucceededCandidates ==
    {i \in 1..Len(dsc.lists[1]) :
        /\ \E k \in 1..Len(ext.results) :
              ext.results[k].cand = i /\ ext.results[k].result = "ok"
        /\ \E k \in 1..Len(cmp.results) :
              cmp.results[k].dir = dsc.lists[1][i].name /\ cmp.results[k].result = "ok"
        /\ idx.status = "written"
        /\ \E k \in 1..Len(idx.templates) : IndexedDir(k) = dsc.lists[1][i].name}

\* C28: after a run in which a template was discovered, extracted, compiled
\* and indexed with success, the discover of the next run, without force and
\* with the same upstream releases, does not list the template.
C28_Quiescence ==
    (pc = "next_run" /\ dsc.status = "written") =>
        \A i \in SucceededCandidates :
            \A j \in 1..Len(discovered) : discovered[j].name # dsc.lists[1][i].name

====
